---- MODULE Spec2Model ----
(***************************************************************************)
(* WhatsAppSimulator: the connection service (WebSocket registry and the   *)
(* bridge to the outgoing topic) and the chat processor (ingestion with    *)
(* KMS envelope encryption), as state machines.                            *)
(*                                                                         *)
(*   SpecRegistry  ConnectionManager on its own: connect, disconnect,      *)
(*                 send_personal_message, driven by websocket_endpoint.    *)
(*   Spec          the relay: websocket_endpoint -> incoming-messages ->   *)
(*                 process_messages -> messages table and                  *)
(*                 outgoing-messages -> consume_outgoing.                  *)
(***************************************************************************)
EXTENDS Integers, Sequences, FiniteSets, TLC

VARIABLES
    sess,                \* per WebSocket handle: handler position and path user id
    active_connections,  \* ConnectionManager.active_connections, as (user_id, websocket) pairs
    lastConnect,         \* history: per user, the handle whose connect() completed last
    pushed,              \* per WebSocket handle: the texts passed to send_text
    lastRoute,           \* history: the last send_personal_message call and its outcome
    lastFrame,           \* history: the session of the last frame received, and its kind
    incoming,            \* topic incoming-messages (log)
    outgoing,            \* topic outgoing-messages (log)
    rows,                \* table messages (committed rows, in commit order)
    ing,                 \* process_messages: position in the loop body and its locals
    ingPos,              \* chat-processor-group: number of incoming records consumed
    nextDek,             \* KMS: number of data keys generated so far
    bridgeUp,            \* consume_outgoing is running
    bridgePos,           \* connection-service-group: consumer position (records passed)
    bridgeCommitted,     \* connection-service-group: committed offset, NoOffset if none
    handled,             \* history: per outgoing offset, what the routing step saw
    rng,                 \* WhatsAppClient: number of os.urandom draws so far
    envelopes,           \* history: the encrypt_message calls and what they returned
    session_keys,        \* WhatsAppClient.session_keys, as (user_id, aes_key) pairs
    decrypted,           \* history: the last decrypt_message call and its result
    auth_enabled,        \* ServiceAuthenticator.enabled / ServiceTokenManager.enabled
    cache_enabled,       \* CacheManager.enabled
    users,               \* table users (rows)
    public_keys,         \* table public_keys: user id -> key, None if no row
    redis,               \* Redis: (key, value, expires) entries
    now,                 \* time.time(), in seconds since the start
    tm,                  \* ServiceTokenManager: _cached_token and _token_expiry
    calls,               \* history: number of calls answered so far
    resp,                \* history: the last call and its outcome
    uploaded_at,         \* history: per user, when the last upload was committed
    inflight,            \* get_key between its SELECT and its cache.set, Nothing if none
    redis_up,            \* Redis answers
    verifier,            \* ServiceAuthenticator: where its process is, and public_key
    broker,              \* chat-processor: AUTH_ENABLED, _aws_session, _session_expiry, kms
    refreshing,          \* threads inside get_service_token waiting for the token endpoint
    srv                  \* server/app.py: table data, Redis, and the requests in progress

vars == <<sess, active_connections, lastConnect, pushed, lastRoute, lastFrame, incoming,
          outgoing, rows, ingPos, nextDek, ing, bridgeUp, bridgePos,
          bridgeCommitted, handled, rng, envelopes, session_keys, decrypted,
          auth_enabled, cache_enabled, users, public_keys, redis, now, tm,
          calls, resp, uploaded_at, inflight, redis_up, verifier, broker,
          refreshing, srv>>

regVars == <<sess, active_connections, lastConnect>>
busVars == <<incoming, outgoing>>
ingVars == <<rows, ing, ingPos, nextDek>>
bridgeVars == <<bridgeUp, bridgePos, bridgeCommitted, handled>>
cliVars == <<rng, envelopes, session_keys, decrypted>>
relayVars == <<regVars, pushed, lastRoute, lastFrame, busVars, ingVars, bridgeVars>>
opsVars == <<inflight, redis_up, verifier, broker, refreshing, srv>>
ksVars == <<auth_enabled, cache_enabled, users, public_keys, redis, now, tm,
           calls, resp, uploaded_at, opsVars>>
extVars == <<cliVars, ksVars>>

----------------------------------------------------------------------------
(* Bounds *)

MaxRequests == 4      \* store and retrieve requests started at the standalone server

NumSessions == 3     \* WebSocket handles that may ever be opened
MaxIncoming == 2     \* records on incoming-messages
MaxRoutes == 2       \* send_personal_message calls (SpecRegistry)
MaxEncrypts == 2     \* encrypt_message calls (SpecClient)
MaxCalls == 4        \* calls answered by the key service (SpecKeys)
MaxAuthCalls == 2    \* calls answered behind the authenticator (SpecAuth)
MaxClock == 5400     \* last instant of the clock, in seconds (SpecKeys)

(* Values *)

None == "None"                       \* Python None / a missing JSON field
Users == {"alice", "bob"}
Sessions == 1..NumSessions
NoSession == 0
RelayHandles == {1, 2}               \* the handles opened in Spec,
RelayClients == {<<1, "alice">>, <<2, "bob">>}   \* and their path user ids
IngestHandles == {1}                 \* the handle opened in SpecIngest
NoOffset == -1                       \* the group has no committed offset

----------------------------------------------------------------------------
(* Frames and envelopes *)

\* An envelope as a JSON object; a field the client left out is None.
Envelope(rcpt, sndr, payload, key, id) ==
    [recipient_id |-> rcpt, sender_id |-> sndr, encrypted_payload |-> payload,
     encrypted_key |-> key, message_id |-> id]

\* Text frames a client may send: well-formed envelopes (the second and
\* third share a message_id), envelopes lacking one field, an envelope
\* with a sender_id of the client's choosing, and text that is not JSON.
Bodies ==
    {Envelope(r, None, "c1", "k1", "m1") : r \in Users}
    \cup {Envelope(r, None, "c2", "k2", "m2") : r \in Users}
    \cup {Envelope("bob", None, "c2", "k2", "m1"),
          Envelope("bob", "bob", "c1", "k1", "m2"),
          Envelope(None, None, "c1", "k1", "m1"),
          Envelope("bob", None, None, "k1", "m1"),
          Envelope("bob", None, "c1", None, "m1"),
          Envelope("bob", None, "c1", "k1", None)}

Frames == [wf : {TRUE}, body : Bodies]
          \cup {[wf |-> FALSE, body |-> Envelope(None, None, None, None, None)]}

\* The frames sent in Spec: one well-formed envelope for each user.
RelayFrames == {[wf |-> TRUE, body |-> Envelope("bob", None, "c1", "k1", "m1")],
                [wf |-> TRUE, body |-> Envelope("alice", None, "c2", "k2", "m2")]}

\* Python truthiness of a value read with dict.get
Truthy(x) == x # None

----------------------------------------------------------------------------
(* Cryptography, symbolically *)

KMS_KEY_ALIAS == "alias/my-key"
IVs == {"iv1", "iv2"}                \* os.urandom(16)
RelayIVs == {"iv1"}                  \* the IV drawn in Spec

\* kms.generate_data_key: the n-th data key and its CiphertextBlob
DataKey(n) == [dek |-> n]
KmsBlob(k) == [alg |-> "KMS", alias |-> KMS_KEY_ALIAS, wraps |-> k]

\* padding.PKCS7(128) over text.encode('utf-8'), then AES-CBC under (k, iv)
AesCbcPkcs7(k, iv, text) == [alg |-> "AES-CBC", key |-> k, iv |-> iv, data |-> text]

\* base64.b64encode(x).decode('utf-8')
B64(x) == [b64 |-> x]

\* iv + ciphertext
IvPrefixed(iv, ct) == [iv |-> iv, ct |-> ct]

DecryptionError == "DecryptionError"

\* kms.decrypt(CiphertextBlob=b64decode(blob)): the data key the blob wraps
KmsDecrypt(blob) == blob.b64.wraps

\* b64decode, iv = first 16 bytes, AES-CBC decrypt of the rest and unpad:
\* the text comes back only under the key and IV it was encrypted with.
AesCbcDecrypt(k, blob) ==
    LET iv == blob.b64.iv
        ct == blob.b64.ct
    IN  IF ct.key = k /\ ct.iv = iv THEN ct.data ELSE DecryptionError


----------------------------------------------------------------------------
(* ConnectionManager *)

\* `user_id in self.active_connections`
Registered(conns, u) == \E p \in conns : p[1] = u

\* `self.active_connections[user_id]`
SessionOf(conns, u) == (CHOOSE p \in conns : p[1] = u)[2]

\* A connect that inserts without replacing the entry of the same key.
DictSetKeepOld(conns, u, ws) == conns \cup {<<u, ws>>}

\* `self.active_connections[user_id] = websocket`: dict assignment, the
\* entry of the key is replaced.
DictSet(conns, u, ws) == {p \in conns : p[1] # u} \cup {<<u, ws>>}

\* ConnectionManager.disconnect(user_id): `if user_id in ...: del ...[user_id]`.
\* The entry of user_id is removed whichever handle it maps to.
disconnect(conns, u) == {p \in conns : p[1] # u}

\* send_personal_message that reports True without looking at the registry.
RouteResultAlways(conns, u) == TRUE

\* send_personal_message, return value: True iff user_id is registered.
RouteResult(conns, u) == Registered(conns, u)

\* send_personal_message, effect: send_text on the registered handle only.
RoutePush(conns, psh, u, m) ==
    IF Registered(conns, u)
    THEN [psh EXCEPT ![SessionOf(conns, u)] = Append(@, m)]
    ELSE psh

----------------------------------------------------------------------------
(* websocket_endpoint *)

\* A client opens /ws/{user_id}: the handler starts and manager.connect
\* awaits websocket.accept().  Handles are used in order.
WsOpen(s, u) ==
    /\ sess[s].st = "idle"
    /\ s > 1 => sess[s - 1].st # "idle"
    /\ sess' = [sess EXCEPT ![s] = [st |-> "handshake", user |-> u]]
    /\ UNCHANGED <<active_connections, lastConnect, pushed, lastRoute, lastFrame>>
    /\ UNCHANGED <<busVars, ingVars, bridgeVars>>
    /\ UNCHANGED extVars

\* accept() returns: the handle is registered and the handler enters its
\* receive loop.
ConnectAccept(s) ==
    /\ sess[s].st = "handshake"
    /\ active_connections' = DictSet(active_connections, sess[s].user, s)
    /\ lastConnect' = [lastConnect EXCEPT ![sess[s].user] = s]
    /\ sess' = [sess EXCEPT ![s].st = "open"]
    /\ UNCHANGED <<pushed, lastRoute, lastFrame>>
    /\ UNCHANGED <<busVars, ingVars, bridgeVars>>
    /\ UNCHANGED extVars

\* accept() raises: connect() is outside the try block, the handler ends
\* and nothing was registered.
HandshakeFail(s) ==
    /\ sess[s].st = "handshake"
    /\ sess' = [sess EXCEPT ![s].st = "failed"]
    /\ UNCHANGED <<active_connections, lastConnect, pushed, lastRoute, lastFrame>>
    /\ UNCHANGED <<busVars, ingVars, bridgeVars>>
    /\ UNCHANGED extVars

\* receive_text() raises WebSocketDisconnect: manager.disconnect(user_id).
WsDisconnect(s) ==
    /\ sess[s].st = "open"
    /\ active_connections' = disconnect(active_connections, sess[s].user)
    /\ sess' = [sess EXCEPT ![s].st = "closed"]
    /\ UNCHANGED <<lastConnect, pushed, lastRoute, lastFrame>>
    /\ UNCHANGED <<busVars, ingVars, bridgeVars>>
    /\ UNCHANGED extVars

\* receive_text() raises something other than WebSocketDisconnect (a
\* binary frame has no "text", the server cancels the task): the clause
\* `except WebSocketDisconnect` does not match, the handler ends with the
\* exception and manager.disconnect is not called.
WsAbort(s) ==
    /\ sess[s].st = "open"
    /\ sess' = [sess EXCEPT ![s].st = "aborted"]
    /\ UNCHANGED <<active_connections, lastConnect, pushed, lastRoute, lastFrame>>
    /\ UNCHANGED <<busVars, ingVars, bridgeVars>>
    /\ UNCHANGED extVars

\* A sender_id that the client may choose.
keep_sender_id(msg, user_id) ==
    IF msg.sender_id = None THEN [msg EXCEPT !.sender_id = user_id] ELSE msg

\* msg['sender_id'] = user_id
set_sender_id(msg, user_id) == [msg EXCEPT !.sender_id = user_id]

\* receive_text() returns a frame: json.loads, the sender_id is overwritten
\* with the path user id, and the message is sent to incoming-messages.  A
\* frame that is not JSON raises inside the inner try and is only logged.
WsReceive(s, f) ==
    /\ sess[s].st = "open"
    /\ Len(incoming) < MaxIncoming
    /\ incoming' = IF f.wf
                   THEN Append(incoming, set_sender_id(f.body, sess[s].user))
                   ELSE incoming
    /\ lastFrame' = [session |-> s, wf |-> f.wf]
    /\ UNCHANGED <<regVars, pushed, lastRoute, outgoing, ingVars, bridgeVars>>
    /\ UNCHANGED extVars

----------------------------------------------------------------------------
(* chat-processor: process_messages *)

IngIdle == [pc |-> "poll", data |-> None, storage_blob |-> None,
            encrypted_dek_b64 |-> None, encrypted_key_storage |-> None]

\* A format test that does not look at encrypted_key.
ValidFormatNoKey(data) ==
    /\ Truthy(data.sender_id)
    /\ Truthy(data.recipient_id)
    /\ Truthy(data.encrypted_payload)

\* `if not (sender_id and recipient_id and encrypted_payload and encrypted_key)`
ValidFormat(data) ==
    /\ Truthy(data.sender_id)
    /\ Truthy(data.recipient_id)
    /\ Truthy(data.encrypted_payload)
    /\ Truthy(data.encrypted_key)

\* Content encrypted under one fixed key instead of the key of this write.
StorageBlobFixedKey(k, iv, text) == B64(IvPrefixed(iv, AesCbcPkcs7(DataKey(0), iv, text)))

\* storage_blob / encrypted_key_storage:
\* b64encode(iv + AES-CBC(data key, iv, PKCS7(text)))
StorageBlob(k, iv, text) == B64(IvPrefixed(iv, AesCbcPkcs7(k, iv, text)))

\* The tuple bound to the INSERT: encrypted_content gets storage_blob and
\* encrypted_key gets encrypted_dek_b64.
InsertedRow(loc) ==
    [message_id |-> loc.data.message_id,
     sender_id |-> loc.data.sender_id,
     recipient_id |-> loc.data.recipient_id,
     encrypted_content |-> loc.storage_blob,
     encrypted_key |-> loc.encrypted_dek_b64]

\* An outgoing message whose encrypted_key field repeats the payload.
outgoing_msg_miscopied(loc) ==
    [recipient_id |-> loc.data.recipient_id,
     sender_id |-> loc.data.sender_id,
     payload |-> [encrypted_payload |-> loc.data.encrypted_payload,
                  encrypted_key |-> loc.data.encrypted_payload]]

\* outgoing_msg: the client's encrypted_payload and encrypted_key as received
outgoing_msg(loc) ==
    [recipient_id |-> loc.data.recipient_id,
     sender_id |-> loc.data.sender_id,
     payload |-> [encrypted_payload |-> loc.data.encrypted_payload,
                  encrypted_key |-> loc.data.encrypted_key]]

\* `for message in consumer`: the next record; one of invalid format is
\* logged and skipped.
IngestPoll ==
    /\ ing.pc = "poll"
    /\ ingPos < Len(incoming)
    /\ ingPos' = ingPos + 1
    /\ LET data == incoming[ingPos + 1]
       IN  ing' = IF ValidFormat(data)
                  THEN [IngIdle EXCEPT !.pc = "kms", !.data = data]
                  ELSE IngIdle
    /\ UNCHANGED <<regVars, pushed, lastRoute, lastFrame, busVars, rows, nextDek, bridgeVars>>
    /\ UNCHANGED extVars

\* Steps 1-3: generate_data_key, a random IV, both ciphertexts and the
\* base64 of the KMS-wrapped data key.
IngestWrap(iv) ==
    /\ ing.pc = "kms"
    /\ nextDek' = nextDek + 1
    /\ LET plaintext_data_key == DataKey(nextDek + 1)
           encrypted_data_key == KmsBlob(plaintext_data_key)
       IN  ing' = [ing EXCEPT
                     !.pc = "store",
                     !.storage_blob =
                         StorageBlob(plaintext_data_key, iv, ing.data.encrypted_payload),
                     !.encrypted_dek_b64 = B64(encrypted_data_key),
                     !.encrypted_key_storage =
                         StorageBlob(plaintext_data_key, iv, ing.data.encrypted_key)]
    /\ UNCHANGED <<regVars, pushed, lastRoute, lastFrame, busVars, rows, ingPos, bridgeVars>>
    /\ UNCHANGED extVars

\* A KMS error that ends process_messages.
IngestKmsErrorFatal ==
    /\ ing.pc = "kms"
    /\ ing' = [ing EXCEPT !.pc = "dead"]
    /\ UNCHANGED <<regVars, pushed, lastRoute, lastFrame, busVars, rows, ingPos, nextDek, bridgeVars>>
    /\ UNCHANGED extVars

\* generate_data_key raises: the except clause logs, the loop continues.
IngestKmsError ==
    /\ ing.pc = "kms"
    /\ ing' = IngIdle
    /\ UNCHANGED <<regVars, pushed, lastRoute, lastFrame, busVars, rows, ingPos, nextDek, bridgeVars>>
    /\ UNCHANGED extVars

\* A table messages without a key.
PrimaryKeyNone(table, id) == FALSE

\* Table messages has message_id as its primary key: an INSERT of NULL, or
\* of an id that a row holds already, raises.
PrimaryKeyViolation(table, id) ==
    id = None \/ \E j \in 1..Len(table) : table[j].message_id = id

\* Step 4: INSERT and commit.
IngestStore ==
    /\ ing.pc = "store"
    /\ ~PrimaryKeyViolation(rows, ing.data.message_id)
    /\ rows' = Append(rows, InsertedRow(ing))
    /\ ing' = [ing EXCEPT !.pc = "publish"]
    /\ UNCHANGED <<regVars, pushed, lastRoute, lastFrame, busVars, ingPos, nextDek, bridgeVars>>
    /\ UNCHANGED extVars

\* A database error that is swallowed, the loop body going on to publish.
IngestDbErrorIgnored ==
    /\ ing.pc = "store"
    /\ ing' = [ing EXCEPT !.pc = "publish"]
    /\ UNCHANGED <<regVars, pushed, lastRoute, lastFrame, busVars, rows, ingPos, nextDek, bridgeVars>>
    /\ UNCHANGED extVars

\* connect, INSERT or commit raises: nothing is committed, the except
\* clause logs, the loop continues with the next record.
IngestDbError ==
    /\ ing.pc = "store"
    /\ ing' = IngIdle
    /\ UNCHANGED <<regVars, pushed, lastRoute, lastFrame, busVars, rows, ingPos, nextDek, bridgeVars>>
    /\ UNCHANGED extVars

\* Step 5: producer.send(OUTGOING_TOPIC, outgoing_msg).
IngestPublish ==
    /\ ing.pc = "publish"
    /\ outgoing' = Append(outgoing, outgoing_msg(ing))
    /\ ing' = IngIdle
    /\ UNCHANGED <<regVars, pushed, lastRoute, lastFrame, incoming, rows, ingPos, nextDek, bridgeVars>>
    /\ UNCHANGED extVars

\* producer.send raises: logged, the row stays.
IngestSendError ==
    /\ ing.pc = "publish"
    /\ ing' = IngIdle
    /\ UNCHANGED <<regVars, pushed, lastRoute, lastFrame, busVars, rows, ingPos, nextDek, bridgeVars>>
    /\ UNCHANGED extVars

\* The chat processor dies and is started again: what it had in hand is
\* gone, and the consumer of chat-processor-group resumes at the committed
\* offset, which the auto-commit has moved past the record in hand (back = 0)
\* or not yet (back = 1, the record is delivered again).
IngestCrash(back) ==
    /\ ingPos - back >= 0
    /\ ingPos' = ingPos - back
    /\ ing' = IngIdle
    /\ UNCHANGED <<regVars, pushed, lastRoute, lastFrame, busVars, rows, nextDek, bridgeVars>>
    /\ UNCHANGED extVars

----------------------------------------------------------------------------
(* connection-service: consume_outgoing *)

\* KafkaConsumer(OUTGOING_TOPIC, ..., group_id=...) with no auto_offset_reset
\* and no enable_auto_commit argument: the consumer starts at the committed
\* offset of the group, or at the end of the log if the group has none
\* (kafka-python's default 'latest').
StartOffset(committed, log) == IF committed = NoOffset THEN Len(log) ELSE committed

BridgeStart ==
    /\ ~bridgeUp
    /\ bridgeUp' = TRUE
    /\ bridgePos' = StartOffset(bridgeCommitted, outgoing)
    /\ UNCHANGED <<regVars, pushed, lastRoute, lastFrame, busVars, ingVars, bridgeCommitted, handled>>
    /\ UNCHANGED extVars

\* A bridge that waits for the recipient: the record is not passed while the
\* recipient has no entry, and is sent to the registered handle once it has.
BridgeConsumeHold ==
    /\ bridgeUp
    /\ bridgePos < Len(outgoing)
    /\ LET data == outgoing[bridgePos + 1]
           online == Registered(active_connections, data.recipient_id)
       IN  /\ handled' = handled \cup {[off |-> bridgePos + 1, online |-> online,
                                        session |-> IF online
                                                    THEN SessionOf(active_connections,
                                                                   data.recipient_id)
                                                    ELSE NoSession]}
           /\ bridgePos' = IF online THEN bridgePos + 1 ELSE bridgePos
           /\ pushed' = IF online
                        THEN [pushed EXCEPT
                                ![SessionOf(active_connections, data.recipient_id)] =
                                    Append(@, data.payload)]
                        ELSE pushed
    /\ UNCHANGED <<regVars, lastRoute, lastFrame, busVars, ingVars, bridgeUp, bridgeCommitted>>
    /\ UNCHANGED extVars

\* One iteration of `for message in consumer`: recipient_id and payload are
\* read; when both are present the registry is looked up, and the branch
\* for a registered recipient is `ws = ...; pass`: nothing is sent.
BridgeConsume ==
    /\ bridgeUp
    /\ bridgePos < Len(outgoing)
    /\ bridgePos' = bridgePos + 1
    /\ LET data == outgoing[bridgePos + 1]
           online == Registered(active_connections, data.recipient_id)
       IN  handled' = handled \cup {[off |-> bridgePos + 1, online |-> online,
                                     session |-> IF online
                                                 THEN SessionOf(active_connections,
                                                                data.recipient_id)
                                                 ELSE NoSession]}
    /\ UNCHANGED <<regVars, pushed, lastRoute, lastFrame, busVars, ingVars, bridgeUp, bridgeCommitted>>
    /\ UNCHANGED extVars

\* Auto-commit (enable_auto_commit defaults to True): between two records
\* the consumer commits its position.
BridgeAutoCommit ==
    /\ bridgeUp
    /\ bridgeCommitted # bridgePos
    /\ bridgeCommitted' = bridgePos
    /\ UNCHANGED <<regVars, pushed, lastRoute, lastFrame, busVars, ingVars, bridgeUp, bridgePos, handled>>
    /\ UNCHANGED extVars

\* The delivery process dies; the committed offset is kept by the broker.
BridgeCrash ==
    /\ bridgeUp
    /\ bridgeUp' = FALSE
    /\ UNCHANGED <<regVars, pushed, lastRoute, lastFrame, busVars, ingVars, bridgePos, bridgeCommitted, handled>>
    /\ UNCHANGED extVars

----------------------------------------------------------------------------
(* ConnectionManager.send_personal_message, called on the registry *)

Texts == {"t1", "t2"}

SendPersonalMessage(u, m) ==
    /\ lastRoute.n < MaxRoutes
    /\ pushed' = RoutePush(active_connections, pushed, u, m)
    /\ lastRoute' = [n |-> lastRoute.n + 1, user |-> u, msg |-> m,
                     result |-> RouteResult(active_connections, u),
                     target |-> IF Registered(active_connections, u)
                                THEN SessionOf(active_connections, u)
                                ELSE NoSession]
    /\ UNCHANGED regVars
    /\ UNCHANGED <<lastFrame, busVars, ingVars, bridgeVars>>
    /\ UNCHANGED extVars

----------------------------------------------------------------------------
(* whatsapp_client.py: WhatsAppClient *)

Plaintexts == {"hello", "bye"}
KeyPairs == {"K1", "K2"}             \* RSA key pairs made by generate_keys

NoDecrypt == [idx |-> 0, priv |-> None, bare |-> FALSE, result |-> None]

\* A random source that hands out the same bytes every time.
urandom_fixed(n) == [rand |-> 0]

\* os.urandom: the n-th draw of the CSPRNG; draws are taken never to repeat.
urandom(n) == [rand |-> n]

\* An RSA encryption that wraps the wrong bytes.
RsaOaepEncryptNothing(pub, key) == [alg |-> "RSA-OAEP", pub |-> pub, wraps |-> [rand |-> 0]]

\* recipient_public_key.encrypt(aes_key, OAEP(MGF1(SHA256), SHA256))
RsaOaepEncrypt(pub, key) == [alg |-> "RSA-OAEP", pub |-> pub, wraps |-> key]

\* encrypt_message, after the key fetch: a key and an IV are drawn, the
\* message is padded and AES-CBC encrypted, the key is RSA-wrapped, and a
\* dict of three fields is returned.
encrypt_message(recipient_id, message, pub, n) ==
    LET aes_key == urandom(n + 1)
        iv == urandom(n + 2)
        ciphertext == AesCbcPkcs7(aes_key, iv, message)
    IN  [recipient_id |-> recipient_id,
         encrypted_payload |-> B64(IvPrefixed(iv, ciphertext)),
         encrypted_key |-> B64(RsaOaepEncrypt(pub, aes_key))]

\* decrypt_message(data) with the private key of pair priv: data['payload']
\* and data['sender_id'] are read (a missing key raises), the AES key is
\* RSA-decrypted, the payload is split into IV and ciphertext, decrypted
\* and unpadded.  Any exception is caught and None is returned.
decrypt_message(priv, data) ==
    IF ~({"payload", "sender_id"} \subseteq DOMAIN data)
    THEN None
    ELSE LET wrapped == data.payload.encrypted_key.b64
         IN  IF wrapped.pub # priv
             THEN None
             ELSE LET plaintext == AesCbcDecrypt(wrapped.wraps,
                                                 data.payload.encrypted_payload)
                  IN  IF plaintext = DecryptionError THEN None ELSE plaintext

\* What the relay hands to the recipient for an envelope sent on the
\* session of sender: websocket_endpoint sets sender_id, process_messages
\* republishes it as outgoing_msg.
Delivered(env, sender) ==
    outgoing_msg([data |-> [recipient_id |-> env.recipient_id,
                            sender_id |-> sender,
                            encrypted_payload |-> env.encrypted_payload,
                            encrypted_key |-> env.encrypted_key]])

\* A test of the fetched key that lets every result through.
NoRecipientKeyNever(fetched) == FALSE

\* `if not recipient_public_key: return None`
NoRecipientKey(fetched) == fetched = None

\* encrypt_message(recipient_id, message) by the client of user sender;
\* fetched is what fetch_public_key returned, None when the key service
\* has no key or cannot be reached.
EncryptMessage(sender, recipient_id, message, fetched) ==
    /\ Len(envelopes) < MaxEncrypts
    /\ IF NoRecipientKey(fetched)
       THEN /\ envelopes' = Append(envelopes,
                                   [ok |-> FALSE, sender |-> sender,
                                    recipient_id |-> recipient_id,
                                    plaintext |-> message, pub |-> fetched])
            /\ rng' = rng
       ELSE /\ envelopes' = Append(envelopes,
                                   [ok |-> TRUE, sender |-> sender,
                                    recipient_id |-> recipient_id,
                                    plaintext |-> message, pub |-> fetched,
                                    env |-> encrypt_message(recipient_id, message,
                                                            fetched, rng)])
            /\ rng' = rng + 2
    /\ UNCHANGED <<session_keys, decrypted>>
    /\ UNCHANGED <<relayVars, ksVars>>

\* decrypt_message on the packet the relay delivers for the i-th envelope
DecryptDelivered(i, priv) ==
    /\ i \in 1..Len(envelopes)
    /\ envelopes[i].ok
    /\ decrypted' = [idx |-> i, priv |-> priv, bare |-> FALSE,
                     result |-> decrypt_message(priv, Delivered(envelopes[i].env,
                                                                envelopes[i].sender))]
    /\ UNCHANGED <<rng, envelopes, session_keys>>
    /\ UNCHANGED <<relayVars, ksVars>>

\* decrypt_message on the dict encrypt_message returned, as it is
DecryptEnvelope(i, priv) ==
    /\ i \in 1..Len(envelopes)
    /\ envelopes[i].ok
    /\ decrypted' = [idx |-> i, priv |-> priv, bare |-> TRUE,
                     result |-> decrypt_message(priv, envelopes[i].env)]
    /\ UNCHANGED <<rng, envelopes, session_keys>>
    /\ UNCHANGED <<relayVars, ksVars>>

----------------------------------------------------------------------------
(* Strings of the scope claim.  A string is a sequence over an alphabet of *)
(* pieces: the scope names, a few other words and the space.               *)

SPACE == " "
READ_KEYS == <<"read:keys">>
WRITE_KEYS == <<"write:keys">>
SERVICE == <<"service">>

\* a + " " + b
Join(a, b) == a \o <<SPACE>> \o b

RECURSIVE SplitFrom(_, _, _)
SplitFrom(s, i, word) ==
    IF i > Len(s)
    THEN IF word = <<>> THEN <<>> ELSE <<word>>
    ELSE IF s[i] = SPACE
         THEN (IF word = <<>> THEN <<>> ELSE <<word>>) \o SplitFrom(s, i + 1, <<>>)
         ELSE SplitFrom(s, i + 1, Append(word, s[i]))

\* str.split(): the words between runs of spaces
split(s) == SplitFrom(s, 1, <<>>)

\* `sub in s` for strings: sub occurs somewhere in s
in_str(sub, s) ==
    \E i \in 1..Len(s) :
        /\ i + Len(sub) - 1 <= Len(s)
        /\ \A j \in 1..Len(sub) : s[i + j - 1] = sub[j]

\* A membership test that accepts a list element merely containing x.
in_list_substring(x, l) == \E i \in 1..Len(l) : in_str(x, l[i])

\* `x in l` for lists: x equals an element of l
in_list(x, l) == \E i \in 1..Len(l) : l[i] = x

\* dict.get(k, default)
Get(d, k, default) == IF k \in DOMAIN d THEN d[k] ELSE default

----------------------------------------------------------------------------
(* auth_middleware.py: ServiceAuthenticator *)

AUDIENCE == "my-microservice"
Nothing == [none |-> TRUE]           \* None, where the other values are records

\* A JWT: who signed it, and the aud, exp and other claims of its body
Jwt(sig, aud, exp, claims) == [sig |-> sig, aud |-> aud, exp |-> exp, claims |-> claims]

NeverExpires == MaxClock + 3600

\* Tokens of users and of a service account, as the identity provider
\* issues them
AliceJwt ==
    Jwt("keycloak", AUDIENCE, NeverExpires,
        [sub |-> "id-of-alice", preferred_username |-> "alice",
         scope |-> Join(READ_KEYS, WRITE_KEYS)])
BobJwt ==
    Jwt("keycloak", AUDIENCE, NeverExpires,
        [sub |-> "bob", scope |-> Join(READ_KEYS, WRITE_KEYS)])
ServiceJwt(exp) ==
    Jwt("keycloak", AUDIENCE, exp,
        [sub |-> "service-account-chat-processor",
         scope |-> Join(Join(READ_KEYS, WRITE_KEYS), SERVICE)])

Tokens ==
    { AliceJwt, BobJwt, ServiceJwt(NeverExpires),
      Jwt("keycloak", AUDIENCE, NeverExpires,
          [sub |-> "bob", scope |-> Join(Join(READ_KEYS, WRITE_KEYS), <<"self", "service">>)]),
      Jwt("keycloak", AUDIENCE, NeverExpires,
          [sub |-> "alice", scope |-> Join(<<"read:keys", "x">>, <<"write:keys", "x">>)]),
      Jwt("keycloak", AUDIENCE, NeverExpires, [sub |-> "alice"]),
      Jwt("keycloak", AUDIENCE, 1800,
          [sub |-> "alice", scope |-> Join(READ_KEYS, WRITE_KEYS)]),
      Jwt("other", AUDIENCE, 0,
          [sub |-> "alice", scope |-> Join(READ_KEYS, WRITE_KEYS)]),
      Jwt("keycloak", "account", NeverExpires,
          [sub |-> "alice", scope |-> Join(READ_KEYS, WRITE_KEYS)]),
      Jwt("other", AUDIENCE, NeverExpires, [sub |-> "alice"]),
      [raw |-> "fake-token"] }

\* What the Authorization header of a request splits into
NoHeader == [present |-> FALSE, parts |-> <<>>]
Bearer(token) == [present |-> TRUE, parts |-> <<"Bearer", token>>]
Headers == {NoHeader, [present |-> TRUE, parts |-> <<"Bearer">>]}
               \cup {Bearer(t) : t \in Tokens}

lower(x) == IF x = "Bearer" THEN "bearer" ELSE x

\* An expiry check that lets every token through.
ExpiredNever(token, t) == FALSE

\* jwt.decode: exp in the past
Expired(token, t) == token.exp <= t

\* verify_token: mock claims when disabled; otherwise jwt.decode checks the
\* form and signature, then exp, then aud, and each failure is raised.
verify_token(enabled, token, t) ==
    IF ~enabled
    THEN [ok |-> TRUE, claims |-> [sub |-> "test-user", scope |-> Join(READ_KEYS, WRITE_KEYS)]]
    ELSE IF "sig" \notin DOMAIN token THEN [ok |-> FALSE, error |-> "Invalid token"]
    ELSE IF token.sig # "keycloak" THEN [ok |-> FALSE, error |-> "Invalid token"]
    ELSE IF Expired(token, t) THEN [ok |-> FALSE, error |-> "Token expired"]
    ELSE IF token.aud # AUDIENCE THEN [ok |-> FALSE, error |-> "Invalid token audience"]
    ELSE [ok |-> TRUE, claims |-> token.claims]

\* A refusal reported as a server error.
UnauthorizedAsError(msg) == [pass |-> FALSE, status |-> 500, body |-> [error |-> msg]]

\* return jsonify({"error": msg}), 401
Unauthorized(msg) == [pass |-> FALSE, status |-> 401, body |-> [error |-> msg]]

\* A wrapper that looks for the scope in the token's body before the token
\* is verified.
require_auth_scope_first(enabled, auth_header, required_scope, t) ==
    IF ~enabled
    THEN [pass |-> TRUE, claims |-> [sub |-> "test-user"]]
    ELSE IF ~auth_header.present
    THEN Unauthorized("Missing Authorization header")
    ELSE IF Len(auth_header.parts) # 2 \/ lower(auth_header.parts[1]) # "bearer"
    THEN Unauthorized("Invalid Authorization header format")
    ELSE LET token == auth_header.parts[2]
             body == IF "claims" \in DOMAIN token THEN token.claims ELSE [sub |-> None]
             scopes == split(Get(body, "scope", <<>>))
             v == verify_token(enabled, token, t)
         IN  IF ~in_list(required_scope, scopes)
             THEN [pass |-> FALSE, status |-> 403,
                   body |-> [error |-> "Missing required scope",
                             required |-> required_scope,
                             provided |-> scopes]]
             ELSE IF ~v.ok
             THEN Unauthorized(v.error)
             ELSE [pass |-> TRUE, claims |-> v.claims]

\* The wrapper of require_auth(required_scope) up to the call of the
\* protected function: pass with the claims put in request.auth_claims, or
\* the response returned instead.
require_auth(enabled, auth_header, required_scope, t) ==
    IF ~enabled
    THEN [pass |-> TRUE, claims |-> [sub |-> "test-user"]]
    ELSE IF ~auth_header.present
    THEN Unauthorized("Missing Authorization header")
    ELSE IF Len(auth_header.parts) # 2 \/ lower(auth_header.parts[1]) # "bearer"
    THEN Unauthorized("Invalid Authorization header format")
    ELSE LET v == verify_token(enabled, auth_header.parts[2], t)
         IN  IF ~v.ok
             THEN Unauthorized(v.error)
             ELSE LET scopes == split(Get(v.claims, "scope", <<>>))
                  IN  IF ~in_list(required_scope, scopes)
                      THEN [pass |-> FALSE, status |-> 403,
                            body |-> [error |-> "Missing required scope",
                                      required |-> required_scope,
                                      provided |-> scopes]]
                      ELSE [pass |-> TRUE, claims |-> v.claims]

\* A constructor that swallows the failure of the key fetch.
ServiceAuthenticatorLenient(enabled, fetched) ==
    [state |-> "serving", public_key |-> IF enabled /\ fetched THEN "keycloak" ELSE None]

\* ServiceAuthenticator.__init__ at the import of the module: disabled, no
\* key is fetched; enabled, _fetch_public_key loads the key or raises,
\* which ends the process that imports the module.
ServiceAuthenticator(enabled, fetched) ==
    IF ~enabled THEN [state |-> "serving", public_key |-> None]
    ELSE IF fetched THEN [state |-> "serving", public_key |-> "keycloak"]
    ELSE [state |-> "crashed", public_key |-> None]

----------------------------------------------------------------------------
(* auth_middleware.py: ServiceTokenManager *)

TOKEN_MARGIN == 300
DEFAULT_EXPIRES_IN == 3600
NoToken == [cached_token |-> Nothing, token_expiry |-> 0]

\* What the token endpoint of the identity provider answers: an error, or
\* an access token, with or without expires_in
IdpReplies ==
    {[ok |-> FALSE], [ok |-> TRUE], [ok |-> TRUE, expires_in |-> 1800]}

\* The replies met by the token manager on its own: also a token that has
\* exactly the margin left one clock step after it was issued
TokenReplies == IdpReplies \cup {[ok |-> TRUE, expires_in |-> 2100]}

\* A validity test without the margin.
TokenStillValidToExpiry(mgr, t) == mgr.cached_token # Nothing /\ t < mgr.token_expiry

\* self._cached_token and time.time() < self._token_expiry - 300
TokenStillValid(mgr, t) ==
    mgr.cached_token # Nothing /\ t < mgr.token_expiry - TOKEN_MARGIN

\* get_service_token: the mock token when disabled; the cached token while
\* it has more than the margin left; otherwise a client-credentials
\* exchange, whose failure is raised.  exchanged tells whether the identity
\* provider was asked.
get_service_token(enabled, mgr, t, reply) ==
    IF ~enabled
    THEN [ok |-> TRUE, exchanged |-> FALSE, token |-> [raw |-> "test-token"], mgr |-> mgr]
    ELSE IF TokenStillValid(mgr, t)
    THEN [ok |-> TRUE, exchanged |-> FALSE, token |-> mgr.cached_token, mgr |-> mgr]
    ELSE IF ~reply.ok
    THEN [ok |-> FALSE, exchanged |-> TRUE, mgr |-> mgr]
    ELSE LET expiry == t + Get(reply, "expires_in", DEFAULT_EXPIRES_IN)
         IN  [ok |-> TRUE, exchanged |-> TRUE, token |-> ServiceJwt(expiry),
              mgr |-> [cached_token |-> ServiceJwt(expiry), token_expiry |-> expiry]]

----------------------------------------------------------------------------
(* server/app.py: store and retrieve *)

\* Threads of one service process, sharing its module-level objects.
Threads == {1, 2}

StoreKeys == {"k"}
Payloads == {"P1", "P2"}

\* A thread of the Flask server that serves no request
NoRequest == [pc |-> "idle", op |-> None, key |-> None, val |-> Nothing]

\* json.dumps of a dictionary, and json.loads of such a string
json_dumps(d) == [json |-> d]
json_loads(x) == x.json

\* Fernet(base64.urlsafe_b64encode(plaintext_key)).encrypt(payload.encode()).decode()
FernetEncrypt(plaintext_key, payload) ==
    [alg |-> "Fernet", key |-> [urlsafe_b64 |-> plaintext_key], text |-> payload]

\* Fernet(base64.urlsafe_b64encode(plaintext_key)).decrypt(...).decode():
\* the payload comes back only under the key it was encrypted with.
FernetDecrypt(plaintext_key, token) ==
    IF token.key = [urlsafe_b64 |-> plaintext_key] THEN token.text ELSE DecryptionError

\* {"encrypted_data": ..., "encrypted_key": ...} as store and retrieve
\* write it to Redis
cache_val(encrypted_data, enc_key_b64) ==
    json_dumps([encrypted_data |-> encrypted_data, encrypted_key |-> enc_key_b64])

\* Step 3 of retrieve: json.loads, kms.decrypt of the wrapped key, Fernet
\* decryption of the data
decrypted_payload(val) ==
    LET data == json_loads(val)
    IN  FernetDecrypt(KmsDecrypt(data.encrypted_key), data.encrypted_data)

\* A thread answers: the response is recorded and the thread is free.
Respond(t, response) ==
    [srv EXCEPT !.reqs[t] = NoRequest, !.done = response]

\* store up to conn.commit(): a data key from KMS, Fernet encryption, the
\* upsert of the row and its commit; cache_val is in hand, r.set is still
\* to come.  A failure of get_aws_session or KMS is answered 500.
StoreCommit(t, key, payload, kms_ok) ==
    /\ srv.reqs[t].pc = "idle"
    /\ IF ~kms_ok
       THEN srv' = [Respond(t, [op |-> "store", thread |-> t, key |-> key, status |-> 500])
                      EXCEPT !.n = srv.n + 1]
       ELSE LET plaintext_key == DataKey(srv.n + 1)
                encrypted_data == FernetEncrypt(plaintext_key, payload)
                enc_key_b64 == B64(KmsBlob(plaintext_key))
            IN  srv' = [srv EXCEPT
                          !.n = srv.n + 1,
                          !.data[key] = [encrypted_data |-> encrypted_data,
                                         encrypted_key |-> enc_key_b64],
                          !.committed[key] = payload,
                          !.reqs[t] = [pc |-> "cache", op |-> "store", key |-> key,
                                       val |-> cache_val(encrypted_data, enc_key_b64)]]
    /\ UNCHANGED <<auth_enabled, cache_enabled, users, public_keys, redis, now, tm>>
    /\ UNCHANGED <<calls, resp, uploaded_at, inflight, redis_up, verifier, broker, refreshing>>
    /\ UNCHANGED <<relayVars, cliVars>>

\* The rest of store: r.set(key, cache_val) and the response.
StoreCacheSet(t) ==
    /\ srv.reqs[t].pc = "cache"
    /\ LET req == srv.reqs[t]
       IN  srv' = [Respond(t, [op |-> "store", thread |-> t, key |-> req.key,
                               status |-> 200])
                     EXCEPT !.r[req.key] = req.val]
    /\ UNCHANGED <<auth_enabled, cache_enabled, users, public_keys, redis, now, tm>>
    /\ UNCHANGED <<calls, resp, uploaded_at, inflight, redis_up, verifier, broker, refreshing>>
    /\ UNCHANGED <<relayVars, cliVars>>

\* The response of retrieve for the value in hand: the decrypted payload
\* and its source, or 500 when KMS or the decryption fails.
RetrieveResponse(t, key, val, source, kms_ok) ==
    IF kms_ok /\ decrypted_payload(val) # DecryptionError
    THEN [op |-> "retrieve", thread |-> t, key |-> key, status |-> 200,
          payload |-> decrypted_payload(val), source |-> source]
    ELSE [op |-> "retrieve", thread |-> t, key |-> key, status |-> 500]

\* retrieve, r.get(key): a hit is decrypted and answered from the cache; a
\* miss goes on to the SELECT.
RetrieveGet(t, key, kms_ok) ==
    /\ srv.reqs[t].pc = "idle"
    /\ LET val == srv.r[key]
       IN  IF val # Nothing
           THEN srv' = [Respond(t, RetrieveResponse(t, key, val, "cache", kms_ok))
                          EXCEPT !.n = srv.n + 1]
           ELSE /\ kms_ok
                /\ srv' = [srv EXCEPT
                             !.n = srv.n + 1,
                             !.reqs[t] = [pc |-> "select", op |-> "retrieve",
                                          key |-> key, val |-> Nothing]]
    /\ UNCHANGED <<auth_enabled, cache_enabled, users, public_keys, redis, now, tm>>
    /\ UNCHANGED <<calls, resp, uploaded_at, inflight, redis_up, verifier, broker, refreshing>>
    /\ UNCHANGED <<relayVars, cliVars>>

\* retrieve after a miss, the SELECT: no row is answered 404; a row is
\* put in val, r.set is still to come.
RetrieveSelect(t) ==
    /\ srv.reqs[t].pc = "select"
    /\ LET req == srv.reqs[t]
           row == srv.data[req.key]
       IN  IF row = Nothing
           THEN srv' = Respond(t, [op |-> "retrieve", thread |-> t, key |-> req.key,
                                   status |-> 404])
           ELSE srv' = [srv EXCEPT
                          !.reqs[t] = [req EXCEPT
                                         !.pc = "fill",
                                         !.val = cache_val(row.encrypted_data,
                                                           row.encrypted_key)]]
    /\ UNCHANGED <<auth_enabled, cache_enabled, users, public_keys, redis, now, tm>>
    /\ UNCHANGED <<calls, resp, uploaded_at, inflight, redis_up, verifier, broker, refreshing>>
    /\ UNCHANGED <<relayVars, cliVars>>

\* retrieve after the SELECT: r.set(key, val), decryption and the response.
RetrieveFill(t, kms_ok) ==
    /\ srv.reqs[t].pc = "fill"
    /\ LET req == srv.reqs[t]
       IN  srv' = [Respond(t, RetrieveResponse(t, req.key, req.val, "db", kms_ok))
                     EXCEPT !.r[req.key] = req.val]
    /\ UNCHANGED <<auth_enabled, cache_enabled, users, public_keys, redis, now, tm>>
    /\ UNCHANGED <<calls, resp, uploaded_at, inflight, redis_up, verifier, broker, refreshing>>
    /\ UNCHANGED <<relayVars, cliVars>>

----------------------------------------------------------------------------
(* chat-processor/app.py: the credentials of the KMS client *)

SESSION_MARGIN == 300
SESSION_LIFETIME == 3600

\* boto3.Session(aws_access_key_id='test', aws_secret_access_key='test')
HardcodedCredentials == [access_key |-> "test", federated |-> FALSE]

\* The temporary credentials of assume_role_with_web_identity with
\* DurationSeconds=3600, asked at t
FederatedCredentials(t) ==
    [access_key |-> "sts", federated |-> TRUE, expiration |-> t + SESSION_LIFETIME]

\* get_keycloak_token: None when disabled; the access token of the
\* client-credentials grant, or None when the exchange fails.
get_keycloak_token(enabled, reply, t) ==
    IF ~enabled THEN Nothing
    ELSE IF ~reply.ok THEN Nothing
    ELSE ServiceJwt(t + Get(reply, "expires_in", DEFAULT_EXPIRES_IN))

\* _aws_session and time.time() < _session_expiry - 300
SessionStillValid(b, t) ==
    b.aws_session # Nothing /\ t < b.session_expiry - SESSION_MARGIN

\* get_aws_session: the cached session inside its validity; otherwise the
\* hardcoded credentials when there is no token or authentication is
\* disabled, the federated ones when STS accepts the token, and the
\* hardcoded ones again when it does not.  Returned with the globals as
\* they are left.
get_aws_session(b, t, reply, sts_ok) ==
    IF SessionStillValid(b, t)
    THEN [session |-> b.aws_session, broker |-> b]
    ELSE LET jwt_token == get_keycloak_token(b.AUTH_ENABLED, reply, t)
             session == IF jwt_token = Nothing \/ ~b.AUTH_ENABLED
                        THEN HardcodedCredentials
                        ELSE IF sts_ok THEN FederatedCredentials(t)
                        ELSE HardcodedCredentials
         IN  [session |-> session,
              broker |-> [b EXCEPT !.aws_session = session,
                                   !.session_expiry = t + SESSION_LIFETIME]]

----------------------------------------------------------------------------
(* cache.py: CacheManager over Redis *)

KEY_TTL == 3600

\* f"pubkey:{user_id}"
CacheKey(user_id) == <<"pubkey", user_id>>

\* A write that Redis never keeps.
setex_lost(store, key, ttl, value, t) == store

\* redis.setex(key, ttl, value)
setex(store, key, ttl, value, t) ==
    {e \in store : e.key # key} \cup {[key |-> key, value |-> value, expires |-> t + ttl]}

\* A cache that takes itself for usable whenever it connected at startup.
UsableSinceStartup(enabled, up) == enabled

\* `if not self.enabled: return ...`, then the Redis call inside
\* `try: ... except Exception`: the call has an effect only if the manager
\* connected at startup and Redis answers now.
Usable(enabled, up) == enabled /\ up

\* CacheManager.delete: redis.delete(key)
cache_delete(enabled, store, key) ==
    IF ~enabled THEN store ELSE {e \in store : e.key # key}

\* CacheManager.stats
cache_stats(enabled, up, store, t) ==
    IF ~enabled THEN [enabled |-> FALSE]
    ELSE IF ~up THEN [enabled |-> FALSE, error |-> "ConnectionError"]
    ELSE [enabled |-> TRUE, total_keys |-> Cardinality({e \in store : t < e.expires})]

\* CacheManager.get: None when disabled or when Redis holds no live entry
cache_get(enabled, store, key, t) ==
    IF ~enabled THEN Nothing
    ELSE IF \E e \in store : e.key = key /\ t < e.expires
    THEN (CHOOSE e \in store : e.key = key /\ t < e.expires).value
    ELSE Nothing

\* CacheManager.set: nothing when disabled
cache_set(enabled, store, key, value, ttl, t) ==
    IF ~enabled THEN store ELSE setex(store, key, ttl, value, t)

----------------------------------------------------------------------------
(* key-service/app.py *)

PublicKeys == {"PK_A", "PK_B"}
NoResp == [op |-> "none"]
Never == -1                          \* no upload committed yet

\* claims.get('preferred_username') or claims.get('sub')
TokenUser(claims) ==
    IF Truthy(Get(claims, "preferred_username", None))
    THEN claims.preferred_username
    ELSE Get(claims, "sub", None)

\* INSERT INTO users (user_id, username, password_hash) VALUES (u, u,
\* 'placeholder') ON CONFLICT (user_id) DO NOTHING
insert_user(usersT, u) ==
    IF \E r \in usersT : r.user_id = u
    THEN usersT
    ELSE usersT \cup {[user_id |-> u, username |-> u, password_hash |-> "placeholder"]}

\* An insert that keeps the key already stored.
insert_key_once(keysT, u, k) ==
    IF keysT[u] # None THEN keysT ELSE [keysT EXCEPT ![u] = k]

\* INSERT INTO public_keys (user_id, public_key) VALUES (u, k)
\* ON CONFLICT (user_id) DO UPDATE SET public_key = EXCLUDED.public_key
upsert_key(keysT, u, k) == [keysT EXCEPT ![u] = k]

\* upload_key after the wrapper let it through: the response, and the
\* tables as committed.  db_ok is whether the database answers.
upload_key(claims, data, db_ok, usersT, keysT) ==
    IF ~Truthy(data.user_id) \/ ~Truthy(data.public_key)
    THEN [status |-> 400, body |-> [error |-> "Missing user_id or public_key"],
          users |-> usersT, public_keys |-> keysT]
    ELSE IF ~in_str(SERVICE, Get(claims, "scope", <<>>)) /\ TokenUser(claims) # data.user_id
    THEN [status |-> 403, body |-> [error |-> "Cannot upload key for another user"],
          users |-> usersT, public_keys |-> keysT]
    ELSE IF ~db_ok
    THEN [status |-> 500, body |-> [error |-> "database"],
          users |-> usersT, public_keys |-> keysT]
    ELSE [status |-> 201, body |-> [status |-> "Key uploaded"],
          users |-> insert_user(usersT, data.user_id),
          public_keys |-> upsert_key(keysT, data.user_id, data.public_key)]

\* get_key after the wrapper let it through: the response, Redis
\* afterwards, and whether the table was queried.
get_key(user_id, db_ok, cacheUp, store, keysT, t) ==
    LET cached == cache_get(cacheUp, store, CacheKey(user_id), t)
    IN  IF cached # Nothing
        THEN [status |-> 200, body |-> cached, redis |-> store, store_read |-> FALSE]
        ELSE IF ~db_ok
        THEN [status |-> 500, body |-> [error |-> "database"], redis |-> store,
              store_read |-> FALSE]
        ELSE IF keysT[user_id] # None
        THEN LET result == [user_id |-> user_id, public_key |-> keysT[user_id]]
             IN  [status |-> 200, body |-> result,
                  redis |-> cache_set(cacheUp, store, CacheKey(user_id), result, KEY_TTL, t),
                  store_read |-> TRUE]
        ELSE [status |-> 404, body |-> [error |-> "User not found"], redis |-> store,
              store_read |-> TRUE]

\* POST /keys
PostKeys(auth_header, data, db_ok) ==
    /\ calls < MaxCalls
    /\ calls' = calls + 1
    /\ LET a == require_auth(auth_enabled, auth_header, WRITE_KEYS, now)
       IN  IF ~a.pass
           THEN /\ resp' = [op |-> "POST /keys", header |-> auth_header, data |-> data,
                            handler |-> FALSE, status |-> a.status, body |-> a.body]
                /\ UNCHANGED <<users, public_keys, uploaded_at>>
           ELSE LET r == upload_key(a.claims, data, db_ok, users, public_keys)
                IN  /\ resp' = [op |-> "POST /keys", header |-> auth_header, data |-> data,
                                handler |-> TRUE, claims |-> a.claims,
                                status |-> r.status, body |-> r.body]
                    /\ users' = r.users
                    /\ public_keys' = r.public_keys
                    /\ uploaded_at' = IF r.status = 201
                                      THEN [uploaded_at EXCEPT ![data.user_id] = now]
                                      ELSE uploaded_at
    /\ UNCHANGED <<auth_enabled, cache_enabled, redis, now, tm, opsVars>>
    /\ UNCHANGED <<relayVars, cliVars>>

\* GET /keys/<user_id>
GetKeys(auth_header, user_id, db_ok) ==
    /\ calls < MaxCalls
    /\ calls' = calls + 1
    /\ LET a == require_auth(auth_enabled, auth_header, READ_KEYS, now)
       IN  IF ~a.pass
           THEN /\ resp' = [op |-> "GET /keys", header |-> auth_header, user_id |-> user_id,
                            handler |-> FALSE, status |-> a.status, body |-> a.body]
                /\ UNCHANGED redis
           ELSE LET r == get_key(user_id, db_ok, Usable(cache_enabled, redis_up), redis,
                                   public_keys, now)
                IN  /\ resp' = [op |-> "GET /keys", header |-> auth_header,
                                user_id |-> user_id, handler |-> TRUE,
                                claims |-> a.claims, store_read |-> r.store_read,
                                status |-> r.status, body |-> r.body]
                    /\ redis' = r.redis
    /\ UNCHANGED <<auth_enabled, cache_enabled, users, public_keys, now, tm>>
    /\ UNCHANGED <<uploaded_at, opsVars>>
    /\ UNCHANGED <<relayVars, cliVars>>

\* GET /keys/<user_id> up to the SELECT, for a request that is let through,
\* misses the cache and finds a row: the row is in hand, cache.set and the
\* response are still to come.
GetKeysSelect(auth_header, user_id) ==
    /\ calls < MaxCalls
    /\ inflight = Nothing
    /\ LET a == require_auth(auth_enabled, auth_header, READ_KEYS, now)
       IN  /\ a.pass
           /\ cache_get(Usable(cache_enabled, redis_up), redis, CacheKey(user_id), now) = Nothing
           /\ public_keys[user_id] # None
           /\ inflight' = [header |-> auth_header, user_id |-> user_id, claims |-> a.claims,
                           result |-> [user_id |-> user_id,
                                       public_key |-> public_keys[user_id]]]
    /\ UNCHANGED <<auth_enabled, cache_enabled, users, public_keys, redis, now, tm>>
    /\ UNCHANGED <<calls, resp, uploaded_at, redis_up, verifier, broker, refreshing, srv>>
    /\ UNCHANGED <<relayVars, cliVars>>

\* The rest of that request: cache.set of the row read, and the response.
GetKeysFill ==
    /\ inflight # Nothing
    /\ calls' = calls + 1
    /\ redis' = cache_set(Usable(cache_enabled, redis_up), redis, CacheKey(inflight.user_id),
                          inflight.result, KEY_TTL, now)
    /\ resp' = [op |-> "GET /keys", header |-> inflight.header,
                user_id |-> inflight.user_id, handler |-> TRUE,
                claims |-> inflight.claims, store_read |-> TRUE,
                status |-> 200, body |-> inflight.result]
    /\ inflight' = Nothing
    /\ UNCHANGED <<auth_enabled, cache_enabled, users, public_keys, now, tm>>
    /\ UNCHANGED <<uploaded_at, redis_up, verifier, broker, refreshing, srv>>
    /\ UNCHANGED <<relayVars, cliVars>>

\* An account of user u is registered in table users by its owner, with
\* the hash of a password.
UserRegistered(u) ==
    /\ ~\E r \in users : r.user_id = u
    /\ users' = users \cup {[user_id |-> u, username |-> u, password_hash |-> "hash"]}
    /\ UNCHANGED <<auth_enabled, cache_enabled, public_keys, redis, now, tm>>
    /\ UNCHANGED <<calls, resp, uploaded_at, opsVars>>
    /\ UNCHANGED <<relayVars, cliVars>>

\* process_messages starts: kms = get_kms_client(), a client made from the
\* session of get_aws_session and kept for the whole loop.  reply and
\* sts_ok are what the identity provider and STS answer if asked.
ProcessMessagesStart(reply, sts_ok) ==
    /\ calls < MaxCalls
    /\ broker.kms = Nothing
    /\ calls' = calls + 1
    /\ LET r == get_aws_session(broker, now, reply, sts_ok)
       IN  /\ broker' = [r.broker EXCEPT !.kms = r.session]
           /\ resp' = [op |-> "get_kms_client", reply |-> reply, sts_ok |-> sts_ok,
                       raised |-> FALSE, credentials |-> r.session]
    /\ UNCHANGED <<auth_enabled, cache_enabled, users, public_keys, redis, now, tm>>
    /\ UNCHANGED <<uploaded_at, inflight, redis_up, verifier, refreshing, srv>>
    /\ UNCHANGED <<relayVars, cliVars>>

\* kms.generate_data_key in the loop of process_messages, signed with the
\* credentials of the client made at the start
GenerateDataKey ==
    /\ calls < MaxCalls
    /\ broker.kms # Nothing
    /\ calls' = calls + 1
    /\ resp' = [op |-> "generate_data_key", credentials |-> broker.kms]
    /\ UNCHANGED <<auth_enabled, cache_enabled, users, public_keys, redis, now, tm>>
    /\ UNCHANGED <<uploaded_at, opsVars>>
    /\ UNCHANGED <<relayVars, cliVars>>

\* cache.get(key), cache.set(key, value, ttl=3600), cache.delete(key) and
\* cache.stats() called directly; none lets an exception out.
CacheGet(user_id) ==
    /\ calls < MaxCalls
    /\ calls' = calls + 1
    /\ resp' = [op |-> "cache.get", raised |-> FALSE,
                result |-> cache_get(Usable(cache_enabled, redis_up), redis,
                                     CacheKey(user_id), now)]
    /\ UNCHANGED <<auth_enabled, cache_enabled, users, public_keys, redis, now, tm>>
    /\ UNCHANGED <<uploaded_at, opsVars>>
    /\ UNCHANGED <<relayVars, cliVars>>

CacheSet(user_id, value) ==
    /\ calls < MaxCalls
    /\ calls' = calls + 1
    /\ redis' = cache_set(Usable(cache_enabled, redis_up), redis, CacheKey(user_id),
                          value, KEY_TTL, now)
    /\ resp' = [op |-> "cache.set", raised |-> FALSE,
                result |-> Usable(cache_enabled, redis_up)]
    /\ UNCHANGED <<auth_enabled, cache_enabled, users, public_keys, now, tm>>
    /\ UNCHANGED <<uploaded_at, opsVars>>
    /\ UNCHANGED <<relayVars, cliVars>>

CacheDelete(user_id) ==
    /\ calls < MaxCalls
    /\ calls' = calls + 1
    /\ redis' = cache_delete(Usable(cache_enabled, redis_up), redis, CacheKey(user_id))
    /\ resp' = [op |-> "cache.delete", raised |-> FALSE,
                result |-> Usable(cache_enabled, redis_up)]
    /\ UNCHANGED <<auth_enabled, cache_enabled, users, public_keys, now, tm>>
    /\ UNCHANGED <<uploaded_at, opsVars>>
    /\ UNCHANGED <<relayVars, cliVars>>

CacheStats ==
    /\ calls < MaxCalls
    /\ calls' = calls + 1
    /\ resp' = [op |-> "cache.stats", raised |-> FALSE,
                result |-> cache_stats(cache_enabled, redis_up, redis, now)]
    /\ UNCHANGED <<auth_enabled, cache_enabled, users, public_keys, redis, now, tm>>
    /\ UNCHANGED <<uploaded_at, opsVars>>
    /\ UNCHANGED <<relayVars, cliVars>>

\* Redis stops answering, or answers again; what it holds is kept.
RedisOutage ==
    /\ redis_up' = ~redis_up
    /\ UNCHANGED <<auth_enabled, cache_enabled, users, public_keys, redis, now, tm>>
    /\ UNCHANGED <<calls, resp, uploaded_at, inflight, verifier, broker, refreshing, srv>>
    /\ UNCHANGED <<relayVars, cliVars>>

\* auth = ServiceAuthenticator(), run when the service imports the module;
\* fetched tells whether the identity provider hands out its realm key
ImportAuth(fetched) ==
    /\ verifier.state = "importing"
    /\ verifier' = ServiceAuthenticator(auth_enabled, fetched)
    /\ UNCHANGED <<auth_enabled, cache_enabled, users, public_keys, redis, now, tm>>
    /\ UNCHANGED <<calls, resp, uploaded_at, inflight, redis_up, broker, refreshing, srv>>
    /\ UNCHANGED <<relayVars, cliVars>>

\* auth.verify_token(token), called directly
VerifyToken(token) ==
    /\ calls < MaxCalls
    /\ calls' = calls + 1
    /\ resp' = [op |-> "verify_token", token |-> token,
                result |-> verify_token(auth_enabled, token, now)]
    /\ UNCHANGED <<auth_enabled, cache_enabled, users, public_keys, redis, now, tm>>
    /\ UNCHANGED <<uploaded_at, opsVars>>
    /\ UNCHANGED <<relayVars, cliVars>>

\* token_mgr.get_auth_headers(); reply is what the identity provider
\* would answer if asked
GetAuthHeaders(reply) ==
    /\ calls < MaxCalls
    /\ calls' = calls + 1
    /\ LET r == get_service_token(auth_enabled, tm, now, reply)
       IN  /\ tm' = r.mgr
           /\ resp' = IF r.ok
                      THEN [op |-> "get_auth_headers", raised |-> FALSE,
                            exchanged |-> r.exchanged,
                            token |-> r.token, Authorization |-> Bearer(r.token)]
                      ELSE [op |-> "get_auth_headers", raised |-> TRUE,
                            exchanged |-> r.exchanged]
    /\ UNCHANGED <<auth_enabled, cache_enabled, users, public_keys, redis, now>>
    /\ UNCHANGED <<uploaded_at, opsVars>>
    /\ UNCHANGED <<relayVars, cliVars>>

\* A thread in get_service_token finds no token, or one inside the margin,
\* and posts the client-credentials grant; it holds no lock while it waits.
GetServiceTokenMiss(c) ==
    /\ auth_enabled
    /\ c \notin refreshing
    /\ ~TokenStillValid(tm, now)
    /\ refreshing' = refreshing \cup {c}
    /\ UNCHANGED <<auth_enabled, cache_enabled, users, public_keys, redis, now, tm>>
    /\ UNCHANGED <<calls, resp, uploaded_at, inflight, redis_up, verifier, broker, srv>>
    /\ UNCHANGED <<relayVars, cliVars>>

\* The token endpoint answers thread c: the token and its expiry are stored
\* and the token returned, or the failure is raised.
GetServiceTokenReply(c, reply) ==
    /\ calls < MaxCalls
    /\ c \in refreshing
    /\ calls' = calls + 1
    /\ refreshing' = refreshing \ {c}
    /\ IF reply.ok
       THEN LET expiry == now + Get(reply, "expires_in", DEFAULT_EXPIRES_IN)
            IN  /\ tm' = [cached_token |-> ServiceJwt(expiry), token_expiry |-> expiry]
                /\ resp' = [op |-> "get_auth_headers", raised |-> FALSE,
                            exchanged |-> TRUE, thread |-> c,
                            token |-> ServiceJwt(expiry),
                            Authorization |-> Bearer(ServiceJwt(expiry))]
       ELSE /\ tm' = tm
            /\ resp' = [op |-> "get_auth_headers", raised |-> TRUE,
                        exchanged |-> TRUE, thread |-> c]
    /\ UNCHANGED <<auth_enabled, cache_enabled, users, public_keys, redis, now>>
    /\ UNCHANGED <<uploaded_at, inflight, redis_up, verifier, broker, srv>>
    /\ UNCHANGED <<relayVars, cliVars>>

\* A thread in get_service_token finds the cached token valid and returns it.
GetServiceTokenHit(c) ==
    /\ calls < MaxCalls
    /\ auth_enabled
    /\ c \notin refreshing
    /\ TokenStillValid(tm, now)
    /\ calls' = calls + 1
    /\ resp' = [op |-> "get_auth_headers", raised |-> FALSE, exchanged |-> FALSE,
                thread |-> c, token |-> tm.cached_token,
                Authorization |-> Bearer(tm.cached_token)]
    /\ UNCHANGED <<auth_enabled, cache_enabled, users, public_keys, redis, now, tm>>
    /\ UNCHANGED <<uploaded_at, opsVars>>
    /\ UNCHANGED <<relayVars, cliVars>>

\* Time passes; Redis drops the entries whose TTL has run out.
Tick(d) ==
    /\ now + d <= MaxClock
    /\ now' = now + d
    /\ redis' = {e \in redis : now' < e.expires}
    /\ UNCHANGED <<auth_enabled, cache_enabled, users, public_keys, tm, calls, resp>>
    /\ UNCHANGED <<uploaded_at, opsVars>>
    /\ UNCHANGED <<relayVars, cliVars>>

----------------------------------------------------------------------------
(* Initial state: both processes constructed, nothing connected, empty    *)
(* topics and table, no committed offsets.                                 *)

\* server/app.py after init_db: an empty table, an empty Redis, no request
\* in progress and none answered; `committed` remembers, for each key, the
\* payload of the store whose INSERT was committed last, and n counts the
\* requests started.
ServerStarted ==
    [data |-> [k \in StoreKeys |-> Nothing],
     r |-> [k \in StoreKeys |-> Nothing],
     reqs |-> [t \in Threads |-> NoRequest],
     done |-> Nothing,
     committed |-> [k \in StoreKeys |-> None],
     n |-> 0]

Started ==
    /\ sess = [s \in Sessions |-> [st |-> "idle", user |-> None]]
    /\ active_connections = {}
    /\ lastConnect = [u \in Users |-> NoSession]
    /\ pushed = [s \in Sessions |-> <<>>]
    /\ lastFrame = [session |-> NoSession, wf |-> TRUE]
    /\ lastRoute = [n |-> 0, user |-> None, msg |-> None, result |-> FALSE,
                    target |-> NoSession]
    /\ incoming = <<>>
    /\ outgoing = <<>>
    /\ rows = <<>>
    /\ ing = IngIdle
    /\ ingPos = 0
    /\ nextDek = 0
    /\ bridgeUp = FALSE
    /\ bridgePos = 0
    /\ bridgeCommitted = NoOffset
    /\ handled = {}
    /\ rng = 0
    /\ envelopes = <<>>
    /\ session_keys = {}
    /\ decrypted = NoDecrypt
    /\ users = {}
    /\ public_keys = [u \in Users |-> None]
    /\ redis = {}
    /\ now = 0
    /\ tm = NoToken
    /\ calls = 0
    /\ resp = NoResp
    /\ uploaded_at = [u \in Users |-> Never]
    /\ inflight = Nothing
    /\ refreshing = {}
    /\ srv = ServerStarted

\* AUTH_ENABLED read by the authenticator and the token manager, the
\* authenticator constructed with it; whether the Redis ping of
\* CacheManager._connect succeeded
Configured(auth, cacheUp) ==
    /\ auth_enabled = auth
    /\ verifier = ServiceAuthenticator(auth, TRUE)
    /\ cache_enabled = cacheUp
    /\ redis_up = cacheUp

\* AUTH_ENABLED read by the chat processor, nothing cached yet
BrokerConfigured(auth) ==
    broker = [AUTH_ENABLED |-> auth, aws_session |-> Nothing, session_expiry |-> 0,
              kms |-> Nothing]

\* The defaults: authentication enabled in the key service and disabled in
\* the chat processor, Redis reachable
Init == Started /\ Configured(TRUE, TRUE) /\ BrokerConfigured(FALSE)

\* A service process of any configuration, before it imports auth_middleware
InitBoot ==
    /\ Started
    /\ \E auth, cacheUp \in BOOLEAN :
          /\ auth_enabled = auth
          /\ cache_enabled = cacheUp
          /\ redis_up = cacheUp
    /\ verifier = [state |-> "importing", public_key |-> None]
    /\ BrokerConfigured(FALSE)

\* Any configuration of the chat processor
InitBroker ==
    /\ Started
    /\ Configured(TRUE, TRUE)
    /\ \E auth \in BOOLEAN : BrokerConfigured(auth)

\* Any configuration of the key service
InitKeys ==
    /\ Started
    /\ \E auth \in BOOLEAN, cacheUp \in BOOLEAN : Configured(auth, cacheUp)
    /\ BrokerConfigured(FALSE)

NextRegistry ==
    \/ \E s \in Sessions, u \in Users : WsOpen(s, u)
    \/ \E s \in Sessions : ConnectAccept(s)
    \/ \E s \in Sessions : HandshakeFail(s)
    \/ \E s \in Sessions : WsDisconnect(s)
    \/ \E u \in Users, m \in Texts : SendPersonalMessage(u, m)

SpecRegistry == Init /\ [][NextRegistry]_vars

\* The frames sent in SpecSessions: an envelope and text that is not JSON
SessionFrames == {f \in Frames : ~f.wf}
                 \cup {[wf |-> TRUE, body |-> Envelope("bob", None, "c1", "k1", "m1")]}

\* Sessions from their handshake to every way they end.
NextSessions ==
    \/ \E s \in Sessions, u \in Users : WsOpen(s, u)
    \/ \E s \in Sessions : ConnectAccept(s)
    \/ \E s \in Sessions : HandshakeFail(s)
    \/ \E s \in Sessions, f \in SessionFrames : WsReceive(s, f)
    \/ \E s \in Sessions : WsDisconnect(s)
    \/ \E s \in Sessions : WsAbort(s)

SpecSessions == Init /\ [][NextSessions]_vars

\* The client library: encryptions and decryptions.
NextClient ==
    \/ \E sender \in Users, r \in Users, m \in Plaintexts, k \in KeyPairs \cup {None} :
         EncryptMessage(sender, r, m, k)
    \/ \E i \in 1..MaxEncrypts, k \in KeyPairs : DecryptDelivered(i, k)
    \/ \E i \in 1..MaxEncrypts, k \in KeyPairs : DecryptEnvelope(i, k)

SpecClient == Init /\ [][NextClient]_vars

\* The authenticator and the token manager in front of the key service:
\* every header, a few calls.
UploadData ==
    {[user_id |-> "alice", public_key |-> "PK_A"], [user_id |-> "alice", public_key |-> "PK_B"],
     [user_id |-> "bob", public_key |-> "PK_B"], [user_id |-> None, public_key |-> "PK_A"]}
Delays == {1800}

NextAuth ==
    \/ \E h \in Headers, d \in UploadData :
         calls < MaxAuthCalls /\ PostKeys(h, d, TRUE)
    \/ \E h \in Headers, u \in Users :
         calls < MaxAuthCalls /\ GetKeys(h, u, TRUE)
    \/ \E t \in Tokens :
         calls < MaxAuthCalls /\ VerifyToken(t)
    \/ \E reply \in IdpReplies :
         calls < MaxAuthCalls /\ GetAuthHeaders(reply)
    \/ \E d \in Delays : Tick(d)

SpecAuth == InitKeys /\ [][NextAuth]_vars

\* The key service with its cache and tables: callers that are let
\* through, a database that may fail, time passing.
KeyHeaders == {NoHeader, Bearer(AliceJwt), Bearer(BobJwt), Bearer(ServiceJwt(NeverExpires))}

NextKeys ==
    \/ \E h \in KeyHeaders, d \in UploadData, db_ok \in BOOLEAN : PostKeys(h, d, db_ok)
    \/ \E h \in KeyHeaders, u \in Users, db_ok \in BOOLEAN : GetKeys(h, u, db_ok)
    \/ \E d \in Delays : Tick(d)

SpecKeys == InitKeys /\ [][NextKeys]_vars

\* A service starting up and, once its module-level code has run, serving.
NextStartup ==
    \/ \E fetched \in BOOLEAN : ImportAuth(fetched)
    \/ \E token \in Tokens : verifier.state = "serving" /\ VerifyToken(token)
    \/ \E h \in KeyHeaders, data \in UploadData :
          verifier.state = "serving" /\ PostKeys(h, data, TRUE)
    \/ \E h \in KeyHeaders, u \in Users :
          verifier.state = "serving" /\ GetKeys(h, u, TRUE)

SpecStartup == InitBoot /\ [][NextStartup]_vars

\* The chat processor getting its KMS client and using it as time passes.
NextBroker ==
    \/ \E reply \in IdpReplies, sts_ok \in BOOLEAN : ProcessMessagesStart(reply, sts_ok)
    \/ GenerateDataKey
    \/ \E d \in Delays : Tick(d)

SpecBroker == InitBroker /\ [][NextBroker]_vars

\* A service asking its token manager for headers as time passes.
NextTokens ==
    \/ \E reply \in TokenReplies : GetAuthHeaders(reply)
    \/ \E d \in Delays : Tick(d)

SpecTokens == InitKeys /\ [][NextTokens]_vars

\* The standalone server: store and retrieve of one key served by two
\* threads, while requests are few.
NextServer ==
    \/ \E t \in Threads, key \in StoreKeys, payload \in Payloads, kms_ok \in BOOLEAN :
          srv.n < MaxRequests /\ StoreCommit(t, key, payload, kms_ok)
    \/ \E t \in Threads : StoreCacheSet(t)
    \/ \E t \in Threads, key \in StoreKeys, kms_ok \in BOOLEAN :
          srv.n < MaxRequests /\ RetrieveGet(t, key, kms_ok)
    \/ \E t \in Threads : RetrieveSelect(t)
    \/ \E t \in Threads, kms_ok \in BOOLEAN : RetrieveFill(t, kms_ok)

SpecServer == Init /\ [][NextServer]_vars

NextRefresh ==
    \/ \E c \in Threads : GetServiceTokenMiss(c)
    \/ \E c \in Threads, reply \in TokenReplies : GetServiceTokenReply(c, reply)
    \/ \E c \in Threads : GetServiceTokenHit(c)
    \/ \E d \in Delays : Tick(d)

SpecRefresh == InitKeys /\ [][NextRefresh]_vars

\* Uploads to the key service, over a users table that may hold accounts.
NextUpsert ==
    \/ \E h \in KeyHeaders, d \in UploadData, db_ok \in BOOLEAN : PostKeys(h, d, db_ok)
    \/ \E u \in Users : UserRegistered(u)

SpecUpsert == InitKeys /\ [][NextUpsert]_vars

\* The key service answering requests concurrently: a fetch may be between
\* its SELECT and its cache.set while other requests are served.
RaceHeaders == {Bearer(ServiceJwt(NeverExpires))}
RaceData == {[user_id |-> "alice", public_key |-> k] : k \in PublicKeys}

NextFetchRace ==
    \/ \E h \in RaceHeaders, d \in RaceData : PostKeys(h, d, TRUE)
    \/ \E h \in RaceHeaders, u \in Users : GetKeys(h, u, TRUE)
    \/ \E h \in RaceHeaders, u \in Users : GetKeysSelect(h, u)
    \/ GetKeysFill
    \/ \E d \in Delays : Tick(d)

SpecFetchRace == Init /\ [][NextFetchRace]_vars

\* The key service and direct calls of the cache while Redis comes and goes.
CachedValues == {[user_id |-> "alice", public_key |-> "PK_A"]}

NextCache ==
    \/ \E data \in RaceData : PostKeys(Bearer(ServiceJwt(NeverExpires)), data, TRUE)
    \/ \E u \in Users : GetKeys(Bearer(ServiceJwt(NeverExpires)), u, TRUE)
    \/ \E u \in Users : CacheGet(u)
    \/ \E value \in CachedValues : CacheSet(value.user_id, value)
    \/ \E u \in Users : CacheDelete(u)
    \/ CacheStats
    \/ RedisOutage

SpecCache == InitKeys /\ [][NextCache]_vars

\* The chat processor fed by one client connection, every kind of frame.
NextIngest ==
    \/ \E s \in IngestHandles, u \in Users : WsOpen(s, u)
    \/ \E s \in IngestHandles : ConnectAccept(s)
    \/ \E s \in IngestHandles, f \in Frames : WsReceive(s, f)
    \/ IngestPoll
    \/ \E iv \in IVs : IngestWrap(iv)
    \/ IngestKmsError
    \/ IngestStore
    \/ IngestDbError
    \/ IngestPublish
    \/ IngestSendError

SpecIngest == Init /\ [][NextIngest]_vars

\* The frames sent in SpecRedeliver: two messages for bob, and a third
\* that repeats the message_id of the first.
RedeliverFrames ==
    {[wf |-> TRUE, body |-> Envelope("bob", None, "c1", "k1", "m1")],
     [wf |-> TRUE, body |-> Envelope("bob", None, "c2", "k2", "m2")],
     [wf |-> TRUE, body |-> Envelope("bob", None, "c2", "k2", "m1")]}

\* The chat processor with crashes and redelivery, while data keys are few.
NextRedeliver ==
    \/ \E s \in IngestHandles, u \in Users : WsOpen(s, u)
    \/ \E s \in IngestHandles : ConnectAccept(s)
    \/ \E s \in IngestHandles, f \in RedeliverFrames : WsReceive(s, f)
    \/ IngestPoll
    \/ \E iv \in IVs : IngestWrap(iv)
    \/ IngestKmsError
    \/ IngestStore
    \/ IngestDbError
    \/ IngestPublish
    \/ IngestSendError
    \/ \E back \in {0, 1} : nextDek <= MaxIncoming /\ IngestCrash(back)

SpecRedeliver == Init /\ [][NextRedeliver]_vars

\* The relay end to end: clients, chat processor and delivery bridge.
Next ==
    \/ \E c \in RelayClients : WsOpen(c[1], c[2])
    \/ \E s \in RelayHandles : ConnectAccept(s)
    \/ \E s \in RelayHandles : HandshakeFail(s)
    \/ \E s \in RelayHandles : WsDisconnect(s)
    \/ \E s \in RelayHandles, f \in RelayFrames : WsReceive(s, f)
    \/ IngestPoll
    \/ \E iv \in RelayIVs : IngestWrap(iv)
    \/ IngestKmsError
    \/ IngestStore
    \/ IngestDbError
    \/ IngestPublish
    \/ IngestSendError
    \/ BridgeStart
    \/ BridgeConsume
    \/ BridgeAutoCommit
    \/ BridgeCrash

Spec == Init /\ [][Next]_vars

----------------------------------------------------------------------------
(* Registry properties *)

\* C1: a stale disconnect does not evict a newer session: while the handle
\* whose connect completed last for a user is still open, the user stays
\* mapped to that handle.
C1_StaleDisconnectKeepsNewer ==
    \A u \in Users :
        (lastConnect[u] # NoSession /\ sess[lastConnect[u]].st = "open")
            => <<u, lastConnect[u]>> \in active_connections

\* C2: last connect wins: the registry holds at most one handle per user,
\* and a registered handle is the one whose connect completed last.
C2_LastConnectWins ==
    \A u \in Users :
        /\ Cardinality({p \in active_connections : p[1] = u}) <= 1
        /\ \A p \in active_connections : p[1] = u => p[2] = lastConnect[u]

\* Two handles of one user are open, the second connect replaced the first.
C2_Witness ==
    \E u \in Users : \E a, b \in Sessions :
        /\ a # b
        /\ sess[a] = [st |-> "open", user |-> u]
        /\ sess[b] = [st |-> "open", user |-> u]
        /\ lastConnect[u] = b
        /\ active_connections = {<<u, b>>}

----------------------------------------------------------------------------
(* Delivery bridge properties (Spec) *)

\* C3: end-to-end delivery, in its finite form: once the bridge has taken
\* a message off the outgoing topic while its recipient was registered, the
\* message's payload has been sent on the recipient's registered handle.
C3_DeliveredWhenRegistered ==
    \A h \in handled :
        h.online =>
            \E k \in 1..Len(pushed[h.session]) :
                pushed[h.session][k] = outgoing[h.off].payload

\* C5: a message the bridge took while its recipient was not registered is
\* dropped: it is never sent on a handle of the recipient, whenever that
\* handle connects, and nothing is sent to the sender about it.
C5_OfflineDropped ==
    \A h \in handled :
        ~h.online =>
            \A s \in Sessions :
                sess[s].user \in {outgoing[h.off].recipient_id, outgoing[h.off].sender_id}
                    => \A k \in 1..Len(pushed[s]) :
                           pushed[s][k] # outgoing[h.off].payload

\* The bridge passed a message for an absent recipient, who is registered now.
C5_Witness ==
    \E h \in handled :
        /\ ~h.online
        /\ bridgeUp
        /\ bridgePos >= h.off
        /\ Registered(active_connections, outgoing[h.off].recipient_id)

\* C6: at-least-once delivery to the bridge: every record of the outgoing
\* topic that lies before the running consumer's position has been handed
\* to the routing step.
C6_NoMessageSkipped ==
    bridgeUp => \A i \in 1..bridgePos : \E h \in handled : h.off = i

----------------------------------------------------------------------------
(* Ingestion properties (SpecIngest) *)

\* What a row must hold for text under data key k: the base64 of the IV
\* followed by the AES-CBC encryption of text under k and that IV.
ExpectedBlob(k, iv, text) ==
    [b64 |-> [iv |-> iv,
              ct |-> [alg |-> "AES-CBC", key |-> k, iv |-> iv, data |-> text]]]

\* The row a message was stored as
RowOf(m, r) ==
    /\ r.sender_id = m.sender_id
    /\ r.recipient_id = m.recipient_id
    /\ \E n \in 1..nextDek, iv \in IVs :
          r.encrypted_content = ExpectedBlob([dek |-> n], iv, m.payload.encrypted_payload)

\* C7: persist before republish: the loop reaches the publish step only
\* with the row of the current message committed, and every message on the
\* outgoing topic has its row in the table.
C7_PersistBeforeRepublish ==
    /\ ing.pc = "publish" =>
          (Len(rows) > 0 /\ rows[Len(rows)] = InsertedRow(ing))
    /\ \A i \in 1..Len(outgoing) : \E j \in 1..Len(rows) : RowOf(outgoing[i], rows[j])

\* One message is stored and published, a second one is stored.
C7_Witness ==
    /\ Len(outgoing) >= 1
    /\ Len(rows) = 2
    /\ ing.pc = "publish"

\* C8: every outgoing message carries the encrypted_payload and the
\* encrypted_key of an incoming envelope unchanged, with that envelope's
\* sender_id and recipient_id.
C8_ForwardsOriginalCiphertext ==
    \A i \in 1..Len(outgoing) :
        \E j \in 1..ingPos :
            outgoing[i] =
                [recipient_id |-> incoming[j].recipient_id,
                 sender_id |-> incoming[j].sender_id,
                 payload |-> [encrypted_payload |-> incoming[j].encrypted_payload,
                              encrypted_key |-> incoming[j].encrypted_key]]

\* Two different envelopes have been republished.
C8_Witness ==
    /\ Len(outgoing) = 2
    /\ outgoing[1].payload # outgoing[2].payload

\* Every row holds the payload of an incoming envelope encrypted under a
\* data key of its own, and that data key KMS-wrapped.
RowsHoldWrappedContent ==
    \A j \in 1..Len(rows) :
        \E n \in 1..nextDek, iv \in IVs, i \in 1..ingPos :
            /\ rows[j].encrypted_content =
                   ExpectedBlob([dek |-> n], iv, incoming[i].encrypted_payload)
            /\ rows[j].encrypted_key =
                   [b64 |-> [alg |-> "KMS", alias |-> "alias/my-key", wraps |-> [dek |-> n]]]
            /\ \A j2 \in 1..Len(rows) :
                   j2 # j => rows[j2].encrypted_key # rows[j].encrypted_key

\* C9 as stated: rows hold only data-key-encrypted content and the wrapped
\* data key, and the end-to-end payload as received (not re-wrapped) is
\* written neither to the table nor to a bus topic by the chat processor.
C9_NoUnwrappedPayloadAnywhere ==
    /\ RowsHoldWrappedContent
    /\ \A i \in 1..Len(outgoing) :
          \A j \in 1..Len(incoming) :
              outgoing[i].payload.encrypted_payload # incoming[j].encrypted_payload

\* C9, amended: rows hold only data-key-encrypted content and the wrapped
\* data key; the only thing the chat processor writes to a bus topic is the
\* client's own end-to-end ciphertext, never a data key.
C9_OnlyWrappedContentStored ==
    /\ RowsHoldWrappedContent
    /\ \A i \in 1..Len(outgoing) :
          \E j \in 1..ingPos :
              /\ outgoing[i].payload.encrypted_payload = incoming[j].encrypted_payload
              /\ outgoing[i].payload.encrypted_key = incoming[j].encrypted_key

\* Two rows written under two data keys, one of them published.
C9_Witness ==
    /\ Len(rows) = 2
    /\ nextDek = 2
    /\ Len(outgoing) = 1
    /\ ing.pc = "poll"

\* C10: the row of a message holds the wrapped data key and both IV-prefixed
\* ciphertexts, that of the payload and that of the wrapped-key field.
C10_BothCiphertextsPersisted ==
    ing.pc = "publish" =>
        LET r == rows[Len(rows)]
        IN  /\ r.encrypted_key = ing.encrypted_dek_b64
            /\ r.encrypted_content = ing.storage_blob
            /\ ing.encrypted_key_storage \in {r.encrypted_content, r.encrypted_key}

----------------------------------------------------------------------------
(* Reading a stored message back (SpecIngest) *)

\* unwrapFromStorage on a row of the messages table: the data key is
\* unwrapped from the key blob and each data-key ciphertext of the row is
\* decrypted.  The row has one such column, encrypted_content; it has none
\* for the wrapped end-to-end key.
UnwrapFromStorage(r) ==
    [payload |-> AesCbcDecrypt(KmsDecrypt(r.encrypted_key), r.encrypted_content),
     wrappedEndToEndKey |-> None]

\* C11: storage round-trip: what is read back from the row of a message is
\* exactly the payload and the wrapped end-to-end key of that message.
C11_StorageRoundTrip ==
    \A j \in 1..Len(rows) :
        \E i \in 1..ingPos :
            /\ rows[j].sender_id = incoming[i].sender_id
            /\ rows[j].recipient_id = incoming[i].recipient_id
            /\ UnwrapFromStorage(rows[j]) =
                   [payload |-> incoming[i].encrypted_payload,
                    wrappedEndToEndKey |-> incoming[i].encrypted_key]

----------------------------------------------------------------------------
(* Client properties (SpecClient) *)

C13_EnvelopeCarriesIds ==
    \A i \in 1..Len(envelopes) :
        envelopes[i].ok =>
            IF {"sender_id", "recipient_id", "message_id"} \subseteq DOMAIN envelopes[i].env
            THEN \A j \in 1..Len(envelopes) :
                    (j # i /\ envelopes[j].ok /\ "message_id" \in DOMAIN envelopes[j].env)
                        => envelopes[j].env.message_id # envelopes[i].env.message_id
            ELSE FALSE

\* The AES key and the IV an envelope was made with
KeyUsed(e) == e.env.encrypted_payload.b64.ct.key
IvUsed(e) == e.env.encrypted_payload.b64.iv

\* C14: no two encrypt_message calls use the same AES key or the same IV,
\* the key wrapped in an envelope is the key its payload was encrypted
\* with, and the client keeps no key after the call.
C14_FreshKeyAndIv ==
    /\ session_keys = {}
    /\ \A i \in 1..Len(envelopes) :
          envelopes[i].ok =>
              /\ envelopes[i].env.encrypted_key.b64.wraps = KeyUsed(envelopes[i])
              /\ KeyUsed(envelopes[i]) # IvUsed(envelopes[i])
              /\ \A j \in 1..Len(envelopes) :
                    (j # i /\ envelopes[j].ok) =>
                        /\ KeyUsed(envelopes[j]) # KeyUsed(envelopes[i])
                        /\ IvUsed(envelopes[j]) # IvUsed(envelopes[i])

\* Two encryptions of the same message for the same recipient.
C14_Witness ==
    /\ Len(envelopes) = 2
    /\ envelopes[1].ok /\ envelopes[2].ok
    /\ envelopes[1].recipient_id = envelopes[2].recipient_id
    /\ envelopes[1].plaintext = envelopes[2].plaintext
    /\ envelopes[1].pub = envelopes[2].pub

----------------------------------------------------------------------------
(* Authentication and authorization properties (SpecAuth) *)

\* The call answered by this step, and what it was about
Answered == calls' # calls
KeyRequest == Answered /\ resp'.op \in {"POST /keys", "GET /keys"}
CarriesToken(h) == h.present /\ Len(h.parts) = 2 /\ "exp" \in DOMAIN h.parts[2]

\* C15 as stated: in no configuration or state does verify return claims
\* for a token whose expiry has passed, whatever its signature.
C15_ExpiredRejectedInEveryMode ==
    [][(Answered /\ resp'.op = "verify_token"
          /\ "exp" \in DOMAIN resp'.token /\ resp'.token.exp <= now)
         => ~resp'.result.ok]_vars

\* C15, amended: with authentication enabled, verify returns no claims for
\* a token whose expiry has passed, whatever its signature, and a request
\* that presents such a token is answered 401 without its handler running.
C15_ExpiredRejectedWhenEnabled ==
    [][/\ (auth_enabled /\ Answered /\ resp'.op = "verify_token"
             /\ "exp" \in DOMAIN resp'.token /\ resp'.token.exp <= now)
            => ~resp'.result.ok
       /\ (auth_enabled /\ KeyRequest /\ CarriesToken(resp'.header)
             /\ resp'.header.parts[2].exp <= now)
            => (resp'.status = 401 /\ ~resp'.handler)]_vars

\* With authentication enabled, a token with a good signature and audience
\* was verified after its expiry and was rejected as expired.
C15_Witness ==
    /\ auth_enabled
    /\ resp.op = "verify_token"
    /\ resp.token = Jwt("keycloak", AUDIENCE, 1800,
                        [sub |-> "alice", scope |-> Join(READ_KEYS, WRITE_KEYS)])
    /\ resp.result = [ok |-> FALSE, error |-> "Token expired"]

\* C16: an upload for userId changes nothing and is answered 403 unless the
\* caller's subject is userId or one of the caller's scopes is exactly the
\* service-level scope.
C16_UploadOwnKeyOrServiceScope ==
    [][(Answered /\ resp'.op = "POST /keys" /\ resp'.handler
          /\ Truthy(resp'.data.user_id))
         => LET scopes == split(Get(resp'.claims, "scope", <<>>))
                allowed == \/ TokenUser(resp'.claims) = resp'.data.user_id
                           \/ \E i \in 1..Len(scopes) : scopes[i] = SERVICE
            IN  ~allowed => (resp'.status = 403 /\ UNCHANGED <<users, public_keys>>)]_vars

\* C17: with a verified token, the handler runs exactly when the required
\* scope is one of the space-delimited words of the scope claim; otherwise
\* the answer is 403 and carries the required and the provided scopes.
C17_ScopeMatchedVerbatim ==
    [][(auth_enabled /\ KeyRequest /\ resp'.status # 401)
         => LET required == IF resp'.op = "POST /keys" THEN WRITE_KEYS ELSE READ_KEYS
                provided == split(Get(resp'.header.parts[2].claims, "scope", <<>>))
                verbatim == \E i \in 1..Len(provided) : provided[i] = required
            IN  /\ resp'.handler <=> verbatim
                /\ ~verbatim =>
                      /\ resp'.status = 403
                      /\ resp'.body.required = required
                      /\ resp'.body.provided = provided]_vars

\* A token whose scope words only contain the required scope was refused.
C17_Witness ==
    /\ auth_enabled
    /\ resp.op = "POST /keys"
    /\ resp.status = 403
    /\ ~resp.handler
    /\ resp.body.required = WRITE_KEYS
    /\ resp.body.provided = << <<"read:keys", "x">>, <<"write:keys", "x">> >>

\* C18: with authentication disabled, verify returns the same synthetic
\* claims for every token, no request to a protected operation is refused
\* for authorization reasons, and the token manager returns 'test-token'
\* with an Authorization header.
C18_DisabledModeRefusesNothing ==
    [][(~auth_enabled /\ Answered)
         => /\ resp'.op = "verify_token" =>
                  /\ resp'.result.ok
                  /\ resp'.result.claims.sub = "test-user"
            /\ resp'.op \in {"POST /keys", "GET /keys"} =>
                  /\ resp'.handler
                  /\ resp'.status \notin {401, 403}
            /\ resp'.op = "get_auth_headers" =>
                  /\ ~resp'.raised
                  /\ resp'.token = [raw |-> "test-token"]
                  /\ resp'.Authorization.present]_vars

\* C19: with authentication enabled, POST /keys without an Authorization
\* header is answered 401, the handler does not run, and neither the tables
\* nor the cache change.
C19_NoHeaderIs401 ==
    [][(auth_enabled /\ Answered /\ resp'.op = "POST /keys" /\ ~resp'.header.present)
         => /\ resp'.status = 401
            /\ ~resp'.handler
            /\ UNCHANGED <<users, public_keys, redis>>]_vars

\* After a key was stored, a POST /keys without header was answered 401.
C19_Witness ==
    /\ auth_enabled
    /\ users # {}
    /\ resp.op = "POST /keys"
    /\ ~resp.header.present
    /\ resp.status = 401

----------------------------------------------------------------------------
(* Cache properties (SpecKeys) *)

\* The live Redis entries of a user's key
LiveEntries(u) == {e \in redis : e.key = <<"pubkey", u>> /\ now < e.expires}

\* C20: cache-aside fetch, with the cache available: a fetch that finds a
\* live entry returns it without reading the table; on a miss it reads the
\* table, writes the record to the cache with the TTL and returns it; a fetch
\* that follows a successful fetch of the same user, the entry still live,
\* returns the same record without reading the table.
C20_CacheAsideFetch ==
    [][(cache_enabled /\ Answered /\ resp'.op = "GET /keys" /\ resp'.handler)
         => LET u == resp'.user_id
                record == [user_id |-> u, public_key |-> public_keys[u]]
            IN  /\ LiveEntries(u) # {} =>
                      /\ resp'.status = 200
                      /\ \E e \in LiveEntries(u) : resp'.body = e.value
                      /\ ~resp'.store_read
                      /\ UNCHANGED redis
                /\ (LiveEntries(u) = {} /\ resp'.status # 500) =>
                      /\ resp'.store_read
                      /\ public_keys[u] # None =>
                            /\ resp'.status = 200
                            /\ resp'.body = record
                            /\ [key |-> <<"pubkey", u>>, value |-> record,
                                expires |-> now + 3600] \in redis'
                /\ (resp.op = "GET /keys" /\ resp.status = 200 /\ resp.user_id = u
                      /\ LiveEntries(u) # {}) =>
                      /\ resp'.body = resp.body
                      /\ ~resp'.store_read]_vars

\* alice's key PK_A was uploaded and fetched twice; the second fetch came
\* from the cache.
C20_Witness ==
    /\ cache_enabled
    /\ calls = 3
    /\ public_keys["alice"] = "PK_A"
    /\ resp.op = "GET /keys"
    /\ resp.status = 200
    /\ resp.handler
    /\ ~resp.store_read
    /\ resp.body = [user_id |-> "alice", public_key |-> "PK_A"]

\* C21: an upload leaves the cache as it is, and a fetch made later than one
\* TTL after the last upload of a user's key returns the key the table
\* holds, whatever requests were in progress around the upload.
C21_StaleAtMostOneTtl ==
    [][/\ (Answered /\ resp'.op = "POST /keys") => UNCHANGED redis
       /\ (Answered /\ resp'.op = "GET /keys" /\ resp'.status = 200
             /\ inflight' = inflight
             /\ uploaded_at[resp'.user_id] # Never
             /\ now > uploaded_at[resp'.user_id] + 3600)
            => resp'.body.public_key = public_keys[resp'.user_id]]_vars

----------------------------------------------------------------------------
(* Upload properties (SpecUpsert) *)

\* The rows of table users of a user id
UserRows(table, u) == {r \in table : r.user_id = u}

\* C22: only a successful upload changes table public_keys; it sets the
\* key of its user id to the uploaded key and leaves the others; it leaves
\* the tables unchanged when that key is already stored; a users row is
\* created when the user id has none and an existing one is kept as it is.
C22_IdempotentUpsert ==
    [][/\ public_keys' # public_keys =>
             (Answered /\ resp'.op = "POST /keys" /\ resp'.status = 201)
       /\ (Answered /\ resp'.op = "POST /keys" /\ resp'.status = 201) =>
             LET u == resp'.data.user_id
             IN  /\ public_keys'[u] = resp'.data.public_key
                 /\ \A v \in Users \ {u} : public_keys'[v] = public_keys[v]
                 /\ Cardinality(UserRows(users', u)) = 1
                 /\ \A r \in users : r \in users'
                 /\ \A r \in users' : r \in users \/ r.user_id = u
                 /\ UserRows(users, u) # {} => users' = users
                 /\ (public_keys[u] = resp'.data.public_key /\ UserRows(users, u) # {})
                       => UNCHANGED <<users, public_keys>>]_vars

\* alice's key was replaced by an upload while her account row, registered
\* before, is still the one in the table.
C22_Witness ==
    /\ calls >= 2
    /\ resp.op = "POST /keys"
    /\ resp.status = 201
    /\ resp.data = [user_id |-> "alice", public_key |-> "PK_B"]
    /\ public_keys["alice"] = "PK_B"
    /\ uploaded_at["alice"] # Never
    /\ [user_id |-> "alice", username |-> "alice", password_hash |-> "hash"] \in users

----------------------------------------------------------------------------
(* Token manager properties (SpecTokens) *)

\* C23: with authentication enabled, while the cached token has more than
\* 300 seconds left it is returned and the identity provider is not asked;
\* otherwise the identity provider is asked and what it issues is returned
\* and cached, or its failure raised; no token with 300 seconds or less
\* left comes from the cache.
C23_CachedOnlyOutsideMargin ==
    [][(auth_enabled /\ Answered /\ resp'.op = "get_auth_headers")
         => LET cached == tm.cached_token # Nothing
                left == tm.token_expiry - now
            IN  /\ (cached /\ left > 300) =>
                      /\ ~resp'.exchanged /\ ~resp'.raised
                      /\ resp'.token = tm.cached_token
                      /\ tm' = tm
                /\ ~(cached /\ left > 300) =>
                      /\ resp'.exchanged
                      /\ resp'.raised => tm' = tm
                      /\ ~resp'.raised =>
                            /\ tm'.cached_token = resp'.token
                            /\ tm'.token_expiry = resp'.token.exp
                            /\ resp'.token.exp > now
                /\ (~resp'.raised /\ ~resp'.exchanged) => resp'.token.exp - now > 300]_vars

\* The cached token was returned half an hour after it was issued for one
\* hour.
C23_Witness ==
    /\ auth_enabled
    /\ resp.op = "get_auth_headers"
    /\ ~resp.raised
    /\ ~resp.exchanged
    /\ now = 1800
    /\ calls >= 2
    /\ resp.token = tm.cached_token
    /\ tm.token_expiry = 3600

----------------------------------------------------------------------------
(* Credential properties of the chat processor (SpecBroker) *)

\* C24: when the identity provider fails or refuses the exchange, or STS
\* rejects the token, getting the credentials fails; hardcoded credentials
\* are used exactly when authentication is disabled.
C24_FailuresPropagate ==
    [][(Answered /\ resp'.op = "get_kms_client")
         => /\ (broker.AUTH_ENABLED /\ (~resp'.reply.ok \/ ~resp'.sts_ok)) => resp'.raised
            /\ (~resp'.raised /\ ~resp'.credentials.federated) <=> ~broker.AUTH_ENABLED]_vars

\* C25: every generate_data_key call is signed with credentials that have
\* more than 300 seconds left before they expire.
C25_KmsCallsInsideMargin ==
    [][(Answered /\ resp'.op = "generate_data_key" /\ resp'.credentials.federated)
         => resp'.credentials.expiration - now > 300]_vars

----------------------------------------------------------------------------
(* Startup property of the authenticator (SpecStartup) *)

\* C26: with authentication enabled, a service past its startup either
\* holds the signing key of the identity provider or is not running: it
\* never serves a request without a key loaded.
C26_NoServingWithoutKey ==
    /\ (auth_enabled /\ verifier.state = "serving") => verifier.public_key = "keycloak"
    /\ (auth_enabled /\ calls > 0) => verifier.public_key = "keycloak"

\* The key could not be fetched and the process is gone before any request.
C26_Witness ==
    auth_enabled /\ verifier.state = "crashed" /\ verifier.public_key = None /\ calls = 0

----------------------------------------------------------------------------
(* Session lifetime property of the registry (SpecSessions) *)

\* C27: a registry entry is created only by a successful handshake, and
\* once a session has ended, whatever ended it, the registry does not map
\* its user to that session.
C27_EntriesTrackLiveSessions ==
    \A s \in Sessions :
        /\ sess[s].st \in {"idle", "handshake", "failed"}
             => \A u \in Users : <<u, s>> \notin active_connections
        /\ sess[s].st \in {"failed", "closed", "aborted"}
             => <<sess[s].user, s>> \notin active_connections

----------------------------------------------------------------------------
(* Degradation of the cache (SpecCache) *)

\* C28: while the cache is disabled or Redis does not answer, get returns
\* None, set and delete change nothing, none of them raises, stats reports
\* enabled = false, and a fetch reads the table and answers with its row.
C28_DegradesToStore ==
    [][(Answered /\ ~(cache_enabled /\ redis_up))
         => /\ resp'.op = "cache.get" => (~resp'.raised /\ resp'.result = Nothing)
            /\ resp'.op \in {"cache.set", "cache.delete"}
                 => (~resp'.raised /\ ~resp'.result /\ UNCHANGED redis)
            /\ resp'.op = "cache.stats" => (~resp'.raised /\ ~resp'.result.enabled)
            /\ (resp'.op = "GET /keys" /\ resp'.handler)
                 => /\ resp'.store_read
                    /\ UNCHANGED redis
                    /\ IF public_keys[resp'.user_id] # None
                       THEN /\ resp'.status = 200
                            /\ resp'.body = [user_id |-> resp'.user_id,
                                             public_key |-> public_keys[resp'.user_id]]
                       ELSE resp'.status = 404]_vars

\* Redis went away holding an older key of alice; the fetch answered with
\* the row of the table.
C28_Witness ==
    /\ cache_enabled /\ ~redis_up
    /\ \E e \in redis : e.key = CacheKey("alice") /\ now < e.expires
                          /\ e.value.public_key # public_keys["alice"]
    /\ resp.op = "GET /keys" /\ resp.status = 200 /\ resp.store_read
    /\ resp.body = [user_id |-> "alice", public_key |-> public_keys["alice"]]

----------------------------------------------------------------------------
(* Encryption without a recipient key (SpecClient) *)

\* C29: an encryption whose key fetch returned nothing yields no envelope,
\* draws no key and no IV, and sends nothing; the fetch is made once.
C29_NoKeyNoEnvelope ==
    [][(Len(envelopes') = Len(envelopes) + 1 /\ envelopes'[Len(envelopes')].pub = None)
         => /\ ~envelopes'[Len(envelopes')].ok
            /\ "env" \notin DOMAIN envelopes'[Len(envelopes')]
            /\ rng' = rng
            /\ UNCHANGED <<session_keys, incoming, outgoing, pushed>>]_vars

\* One envelope was made, then an encryption for a recipient without a key
\* returned nothing and the random source stands where it stood.
C29_Witness ==
    /\ Len(envelopes) = 2
    /\ envelopes[1].ok
    /\ envelopes[2].pub = None /\ ~envelopes[2].ok
    /\ rng = 2

----------------------------------------------------------------------------
(* Status of an upload (SpecKeys) *)

\* C30: an upload of the caller's own key with a valid token carrying
\* write:keys is answered with status 200, and a later authenticated fetch
\* of that key by another user is answered 200 with the uploaded key.
C30_UploadAnswers200 ==
    [][/\ (Answered /\ auth_enabled /\ resp'.op = "POST /keys" /\ resp'.handler
             /\ TokenUser(resp'.claims) = resp'.data.user_id
             /\ resp'.status # 500)
            => resp'.status = 200
       /\ (Answered /\ auth_enabled /\ resp'.op = "GET /keys" /\ resp'.handler
             /\ TokenUser(resp'.claims) # resp'.user_id
             /\ uploaded_at[resp'.user_id] # Never
             /\ resp'.status # 500)
            => /\ resp'.status = 200
               /\ resp'.store_read => resp'.body.public_key = public_keys[resp'.user_id]]_vars

----------------------------------------------------------------------------
(* Concurrent connects of one user (SpecRegistry) *)

\* The handles opened for u; they are numbered in the order of their opening.
HandlesOf(u) == {s \in Sessions : sess[s].st # "idle" /\ sess[s].user = u}

\* C31: once the connects started for a user have all completed and none of
\* their sessions has ended, the registry maps the user to the handle whose
\* connect was started last, whichever handshake completed first.
C31_LatestInitiatedWins ==
    \A u \in Users :
        (HandlesOf(u) # {} /\ \A s \in HandlesOf(u) : sess[s].st = "open")
            => \E b \in HandlesOf(u) :
                   /\ \A s \in HandlesOf(u) : s <= b
                   /\ <<u, b>> \in active_connections

----------------------------------------------------------------------------
(* Isolation of recipients in the delivery loop (Spec) *)

\* C32: the delivery loop goes on past the message of one recipient: a
\* message that follows it on the outgoing topic and whose recipient, another
\* user, is registered when the loop takes it has been sent on that
\* recipient's handle.
C32_LaterRecipientsServed ==
    \A g, h \in handled :
        (/\ g.off < h.off
         /\ outgoing[g.off].recipient_id # outgoing[h.off].recipient_id
         /\ h.online)
            => \E k \in 1..Len(pushed[h.session]) :
                   pushed[h.session][k] = outgoing[h.off].payload

----------------------------------------------------------------------------
(* Concurrent refresh of the service token (SpecRefresh) *)

\* C33: at most one exchange with the identity provider is in flight at a
\* time.
C33_SingleFlight == Cardinality(refreshing) <= 1

----------------------------------------------------------------------------
(* Errors inside the ingestion loop (SpecIngest) *)

\* C34: an error of the key-management call, of the store or of the publish
\* ends the processing of the message at hand only: the loop is back at its
\* poll with its position kept, and a failure before the commit leaves the
\* table and the outgoing topic as they were.
C34_ErrorsDoNotStopTheLoop ==
    [][/\ ing'.pc \in {"poll", "kms", "store", "publish"}
       /\ (ing.pc = "kms" /\ ing'.pc # "kms")
            => \/ ing'.pc = "store" /\ UNCHANGED <<rows, outgoing>>
               \/ ing'.pc = "poll" /\ UNCHANGED <<rows, outgoing, ingPos>>
       /\ (ing.pc = "store" /\ ing'.pc # "store")
            => \/ ing'.pc = "publish" /\ Len(rows') = Len(rows) + 1
               \/ ing'.pc = "poll" /\ UNCHANGED <<rows, outgoing, ingPos>>
       /\ (ing.pc = "publish" /\ ing'.pc # "publish")
            => ing'.pc = "poll" /\ UNCHANGED <<rows, ingPos>>]_vars

\* The key-management call failed for the first message; the second one
\* was stored and published.
C34_Witness ==
    /\ ingPos = 2 /\ ing.pc = "poll"
    /\ ValidFormat(incoming[1]) /\ ValidFormat(incoming[2])
    /\ incoming[1].encrypted_payload # incoming[2].encrypted_payload
    /\ nextDek = 1
    /\ Len(rows) = 1 /\ Len(outgoing) = 1
    /\ outgoing[1].payload.encrypted_payload = incoming[2].encrypted_payload

----------------------------------------------------------------------------
(* One row per message (SpecRedeliver) *)

\* C35: the table holds at most one row per message_id, rows are only ever
\* added, and a message is published only by the pass that inserted its
\* row: a pass over a message whose id is stored already publishes nothing.
C35_OneRowPerMessage ==
    [][/\ \A i, j \in 1..Len(rows') : rows'[i].message_id = rows'[j].message_id => i = j
       /\ Len(rows') >= Len(rows) /\ SubSeq(rows', 1, Len(rows)) = rows
       /\ outgoing' # outgoing
            => /\ rows # <<>>
               /\ rows[Len(rows)].message_id = ing.data.message_id
               /\ rows[Len(rows)].encrypted_key = ing.encrypted_dek_b64
               /\ Len(outgoing') <= Len(rows')]_vars

\* The one message received was stored, the processor died before the
\* publish, the message came again and was wrapped again: one row, nothing
\* published.
C35_Witness ==
    /\ Len(incoming) = 1 /\ ingPos = 1 /\ ing.pc = "poll"
    /\ nextDek = 2
    /\ Len(rows) = 1 /\ rows[1].message_id = incoming[1].message_id
    /\ rows[1].encrypted_key = B64(KmsBlob(DataKey(1)))
    /\ outgoing = <<>>

----------------------------------------------------------------------------
(* Order of one sender's messages (SpecRedeliver) *)

\* The outgoing message o republishes the incoming record d.
Republishes(o, d) ==
    /\ o.sender_id = d.sender_id
    /\ o.recipient_id = d.recipient_id
    /\ o.payload.encrypted_payload = d.encrypted_payload
    /\ o.payload.encrypted_key = d.encrypted_key

\* C36: the incoming topic is only appended to, in the order of reception,
\* and two outgoing messages of one sender for one recipient stand in the
\* order in which their records stand on the incoming topic.
C36_SenderOrderKept ==
    [][/\ incoming' # incoming
            => Len(incoming') = Len(incoming) + 1
               /\ SubSeq(incoming', 1, Len(incoming)) = incoming
       /\ \A i, j \in 1..Len(outgoing') :
            (/\ i < j
             /\ outgoing'[i].sender_id = outgoing'[j].sender_id
             /\ outgoing'[i].recipient_id = outgoing'[j].recipient_id)
                => \E a, b \in 1..Len(incoming') :
                       /\ a < b
                       /\ Republishes(outgoing'[i], incoming'[a])
                       /\ Republishes(outgoing'[j], incoming'[b])]_vars

----------------------------------------------------------------------------
(* The sender of a published message (SpecIngest) *)

\* C37: a frame taken from an open session either is JSON, and then one
\* record is appended to the incoming topic whose sender_id is the user id
\* of that session, or is not, and then nothing is published; either way
\* the session stays open and the registry is left as it is.  Nothing else
\* writes to the incoming topic.
C37_SenderIsSessionUser ==
    [][(lastFrame' # lastFrame \/ incoming' # incoming)
         => LET s == lastFrame'.session
            IN  /\ s \in Sessions
                /\ sess[s].st = "open"
                /\ UNCHANGED <<sess, active_connections>>
                /\ IF lastFrame'.wf
                   THEN /\ Len(incoming') = Len(incoming) + 1
                        /\ SubSeq(incoming', 1, Len(incoming)) = incoming
                        /\ incoming'[Len(incoming')].sender_id = sess[s].user
                   ELSE incoming' = incoming]_vars

\* Alice's session sent an envelope naming bob as its sender, published
\* under alice's id, and then text that is not JSON; it is open and
\* registered.
C37_Witness ==
    \E s \in Sessions :
        /\ sess[s] = [st |-> "open", user |-> "alice"]
        /\ <<"alice", s>> \in active_connections
        /\ lastFrame = [session |-> s, wf |-> FALSE]
        /\ incoming = <<Envelope("bob", "alice", "c1", "k1", "m2")>>

----------------------------------------------------------------------------
(* Records of invalid format (SpecIngest) *)

\* The record the chat processor takes next lacks one of the four fields
Incomplete(data) ==
    \/ data.sender_id = None
    \/ data.recipient_id = None
    \/ data.encrypted_payload = None
    \/ data.encrypted_key = None

\* C38: when the chat processor takes a record lacking sender_id,
\* recipient_id, encrypted_payload or encrypted_key, it is back at the head
\* of its loop at once, ready for the next record, and no data key was
\* requested, no row written and nothing published; and whenever a data
\* key is requested, a row written or a message published, the record
\* being processed has all four fields.
C38_InvalidFormatSkipped ==
    [][/\ (ingPos' = ingPos + 1 /\ Incomplete(incoming[ingPos + 1]))
            => /\ ing'.pc = "poll"
               /\ ing.pc = "poll"
               /\ UNCHANGED <<nextDek, rows, outgoing>>
       /\ (nextDek' # nextDek \/ rows' # rows \/ outgoing' # outgoing)
            => /\ ing.pc \in {"kms", "store", "publish"}
               /\ ~Incomplete(incoming[ingPos])
               /\ ing.data.message_id = incoming[ingPos].message_id
               /\ ingPos' = ingPos]_vars

\* A record without encrypted_key was skipped, and the record after it was
\* stored and published with the only data key requested.
C38_Witness ==
    /\ incoming = <<Envelope("bob", "alice", "c1", None, "m1"),
                    Envelope("bob", "alice", "c2", "k2", "m2")>>
    /\ ingPos = 2
    /\ ing.pc = "poll"
    /\ nextDek = 1
    /\ Len(rows) = 1 /\ rows[1].message_id = "m2"
    /\ Len(outgoing) = 1 /\ outgoing[1].payload.encrypted_payload = "c2"

----------------------------------------------------------------------------
(* The order of the checks of require_auth (SpecAuth) *)

\* The Authorization header of the request answered is `Bearer <token>`
\* with a token that Keycloak signed for this audience and that has not
\* expired
TokenVerified ==
    /\ resp'.header.present
    /\ Len(resp'.header.parts) = 2
    /\ resp'.header.parts[1] = "Bearer"
    /\ LET token == resp'.header.parts[2]
       IN  /\ "sig" \in DOMAIN token
           /\ token.sig = "keycloak"
           /\ token.exp > now
           /\ token.aud = AUDIENCE

\* The scope the endpoint answered requires is among the scopes of the
\* token presented
ScopeFound ==
    LET required == IF resp'.op = "POST /keys" THEN WRITE_KEYS ELSE READ_KEYS
    IN  in_list(required, split(Get(resp'.header.parts[2].claims, "scope", <<>>)))

\* C39: with authentication enabled, the handler of a protected endpoint
\* runs only for a request whose bearer token was verified and carries the
\* required scope; a request without a verified token is answered 401,
\* whatever scopes its token names; a verified token without the scope is
\* answered 403; and a refused request runs no handler and leaves tables
\* and cache as they were.
C39_AuthenticateThenAuthorize ==
    [][(auth_enabled /\ KeyRequest)
         => /\ resp'.handler => (TokenVerified /\ ScopeFound)
            /\ ~TokenVerified => (resp'.status = 401 /\ ~resp'.handler)
            /\ (TokenVerified /\ ~ScopeFound) => (resp'.status = 403 /\ ~resp'.handler)
            /\ ~resp'.handler
                 => UNCHANGED <<users, public_keys, redis, uploaded_at, tm>>]_vars

\* With authentication enabled, an upload came with a token that has a
\* forged signature and names no scope: it was answered 401, not 403.
C39_Witness ==
    /\ auth_enabled
    /\ resp.op = "POST /keys"
    /\ resp.header = Bearer(Jwt("other", AUDIENCE, NeverExpires, [sub |-> "alice"]))
    /\ resp.status = 401
    /\ resp.body = [error |-> "Invalid token"]
    /\ ~resp.handler

----------------------------------------------------------------------------
(* Cache and table of the standalone server (SpecServer) *)

\* No store or retrieve of key k is in progress
Quiet(k) == \A t \in Threads : srv.reqs[t].key # k

\* C40: once the operations on a key have completed, a retrieve of the key
\* returns the payload of the store whose database write was committed
\* last: the cache entry of the key, if there is one, decrypts to that
\* payload, as it would if it were the durable row of the key.
C40_CacheServesLastCommit ==
    \A k \in StoreKeys :
        (Quiet(k) /\ srv.r[k] # Nothing)
            => /\ srv.data[k] # Nothing
               /\ decrypted_payload(srv.r[k]) = srv.committed[k]
               /\ decrypted_payload(srv.r[k])
                    = decrypted_payload(cache_val(srv.data[k].encrypted_data,
                                                  srv.data[k].encrypted_key))

====
